---- MODULE Spec2Model ----
(***************************************************************************)
(* Ant-Colony-Simulator: the pheromone field (src/src/pheromone_model.py), *)
(* the neural controller and its evolution engine (src/src/neural_net.py,  *)
(* src/src/colony_brain.py), and the ant agent inside the colony tick      *)
(* (src/src/ant.py, src/src/colony.py).                                    *)
(*                                                                         *)
(* Numbers.  The program computes with IEEE-754 doubles.  A double is one  *)
(* of finitely many evenly spaced values near zero, and every product is   *)
(* rounded to the nearest of them.  The model keeps exactly that: a        *)
(* strength, a fitness or an energy is an integer number of quanta, and a  *)
(* product with a decimal factor is rounded to the nearest quantum         *)
(* (MulRound).  The quantum is coarser than a double's so that the state   *)
(* space stays finite.                                                     *)
(***************************************************************************)
EXTENDS Integers, Sequences, FiniteSets, TLC

VARIABLES
    \* PheromoneModel
    width, height,          \* world size the field was built for
    food_trail, home_trail, \* PheromoneLayer.grid of each layer: <<gx, gy>> -> strength
    \* NeuralNetwork: the weights of two networks
    net1, net2,
    \* ColonyBrain
    elite_brains,           \* list of AntBrain: [network |-> weights, fitness |-> f]
    colony_network,         \* weights of the averaged network
    generation, best_fitness, total_food_collected, total_trips_completed,
    knowledge_score, diversity_score,
    \* Colony
    ants,                   \* list of Ant records
    food_sources,           \* list of FoodSource: [x, y, amount]
    food_stored, population, time,
    death_markers,          \* deque of <<x, y, frames_remaining>>
    walls,                  \* WallManager.walls: list of rectangles
    maze,                   \* MazeGenerator.grid: the set of passage cells <<x, y>> (grid[y][x] False)
    \* Colony.update in progress
    pc,                     \* "idle" between ticks, "scan" inside the loop over the ants
    idx,                    \* list index of the next ant to update
    dead_ants,              \* <<i, x, y>> of every ant whose update returned False
    \* the last operation applied, with its arguments and result
    op

pherVars == <<width, height, food_trail, home_trail>>
netVars == <<net1, net2>>
brainVars == <<elite_brains, colony_network, generation, best_fitness,
               total_food_collected, total_trips_completed,
               knowledge_score, diversity_score>>
colonyVars == <<ants, food_sources, food_stored, population, time, death_markers,
                walls, maze, pc, idx, dead_ants>>
vars == <<pherVars, netVars, brainVars, colonyVars, op>>

\* Python's None, and a value that is not None
None == <<>>
Some(v) == <<v>>
Val(o) == o[1]

Min(a, b) == IF a < b THEN a ELSE b
Max(a, b) == IF a > b THEN a ELSE b
Abs(a) == IF a < 0 THEN -a ELSE a

(***************************************************************************)
(* Bounds of the model.                                                    *)
(***************************************************************************)
\* quanta per unit of strength (the spacing of representable values is 1/Scale)
Scale == 10
\* angle units per eighth of a turn (pi/4)
EighthTurn == 2
\* world sizes the pheromone specifications build their field for
FieldW == 40
FieldH == 20
\* operations applied in one run of SpecField
MaxOps == 3
\* colony ticks started in one run of SpecColony
MaxTicks == 2
\* the scaled-down topology of the network, and the resolution of random.random()
INPUT_SIZE == 1
HIDDEN_SIZE == 1
OUTPUT_SIZE == 1
RandDen == 2
\* world size of the field that SpecTrail senses
TrailW == 60
TrailH == 60

Pi == 4 * EighthTurn

(***************************************************************************)
(* Float product x * (num/den) of a non-negative x, rounded to the nearest *)
(* quantum.  The doubles nearest 0.995, 0.3 and 0.95 lie just below those  *)
(* decimals, so a product exactly halfway between two quanta rounds down.  *)
(***************************************************************************)
MulRound(x, num, den) == (2 * num * x + den - 1) \div (2 * den)

(***************************************************************************)
(* PheromoneModel configuration.                                           *)
(***************************************************************************)
cell_size == 20
max_pheromone == 200 * Scale
detection_threshold == 10 * Scale
evaporation_num == 995
evaporation_den == 1000
backward_num == 3
backward_den == 10

PheromoneType == {"FOOD_TRAIL", "HOME_TRAIL"}

grid_width == width \div cell_size
grid_height == height \div cell_size

GridCells(w, h) == (0 .. (w \div cell_size) - 1) \X (0 .. (h \div cell_size) - 1)

\* PheromoneLayer.__init__: every cell 0.0
PheromoneLayer(w, h) == [c \in GridCells(w, h) |-> 0]

\* PheromoneLayer.deposit without the cap
Layer_deposit_NoClamp(grid, gx, gy, amount, max_value) ==
    IF 0 <= gx /\ gx < grid_width /\ 0 <= gy /\ gy < grid_height
    THEN [grid EXCEPT ![<<gx, gy>>] = @ + amount]
    ELSE grid

\* PheromoneLayer.deposit
Layer_deposit(grid, gx, gy, amount, max_value) ==
    IF 0 <= gx /\ gx < grid_width /\ 0 <= gy /\ gy < grid_height
    THEN [grid EXCEPT ![<<gx, gy>>] = Min(max_value, @ + amount)]
    ELSE grid

\* PheromoneLayer.get
Layer_get(grid, gx, gy) ==
    IF 0 <= gx /\ gx < grid_width /\ 0 <= gy /\ gy < grid_height
    THEN grid[<<gx, gy>>]
    ELSE 0

\* PheromoneLayer.evaporate computing the product without storing it
Layer_evaporate_NoStore(grid, num, den) == grid

\* PheromoneLayer.evaporate
Layer_evaporate(grid, num, den) ==
    [c \in DOMAIN grid |-> MulRound(grid[c], num, den)]

\* PheromoneModel._to_grid
to_grid(x, y) ==
    <<Max(0, Min(x \div cell_size, grid_width - 1)),
      Max(0, Min(y \div cell_size, grid_height - 1))>>

\* PheromoneModel._get_layer
get_layer(ptype) == IF ptype = "FOOD_TRAIL" THEN food_trail ELSE home_trail

\* PheromoneModel.deposit: the two layers after the call
deposit(x, y, amount, ptype) ==
    LET g == to_grid(x, y)
        layer == Layer_deposit(get_layer(ptype), g[1], g[2], amount, max_pheromone)
    IN  IF ptype = "FOOD_TRAIL"
        THEN [food |-> layer, home |-> home_trail]
        ELSE [food |-> food_trail, home |-> layer]

\* PheromoneModel.get_strength
get_strength(x, y, ptype) ==
    LET g == to_grid(x, y) IN Layer_get(get_layer(ptype), g[1], g[2])

\* the fixed scan order of get_trail_direction
directions ==
    << <<-1, -1>>, <<0, -1>>, <<1, -1>>,
       <<-1,  0>>,            <<1,  0>>,
       <<-1,  1>>, <<0,  1>>, <<1,  1>> >>

\* math.atan2(dy, dx) for the eight neighbour offsets, in angle units
atan2(dy, dx) ==
    CASE dx =  1 /\ dy =  0 -> 0
      [] dx =  1 /\ dy =  1 -> EighthTurn
      [] dx =  0 /\ dy =  1 -> 2 * EighthTurn
      [] dx = -1 /\ dy =  1 -> 3 * EighthTurn
      [] dx = -1 /\ dy =  0 -> 4 * EighthTurn
      [] dx = -1 /\ dy = -1 -> -3 * EighthTurn
      [] dx =  0 /\ dy = -1 -> -2 * EighthTurn
      [] dx =  1 /\ dy = -1 -> -EighthTurn

\* while angle_diff > math.pi: angle_diff = abs(angle_diff - 2 * math.pi)
RECURSIVE FoldAngle(_)
FoldAngle(angle_diff) ==
    IF angle_diff > Pi THEN FoldAngle(Abs(angle_diff - 2 * Pi)) ELSE angle_diff

\* a neighbour counting with its full strength whatever the heading
Effective_NoDiscount(strength, dy, dx, current_dir) == strength

\* the strength a neighbour counts with: discounted when it lies backwards
Effective(strength, dy, dx, current_dir) ==
    IF current_dir # None /\ FoldAngle(Abs(atan2(dy, dx) - Val(current_dir))) > 2 * EighthTurn
    THEN MulRound(strength, backward_num, backward_den)
    ELSE strength

\* the loop of get_trail_direction from its i-th direction on
RECURSIVE TrailScan(_, _, _, _, _, _)
TrailScan(layer, g, current_dir, i, best_strength, best_dir) ==
    IF i > Len(directions) THEN best_dir
    ELSE LET dx == directions[i][1]
             dy == directions[i][2]
             strength == Layer_get(layer, g[1] + dx, g[2] + dy)
             eff == Effective(strength, dy, dx, current_dir)
         IN  IF strength < detection_threshold
             THEN TrailScan(layer, g, current_dir, i + 1, best_strength, best_dir)
             ELSE IF eff > best_strength
                  THEN TrailScan(layer, g, current_dir, i + 1, eff, Some(atan2(dy, dx)))
                  ELSE TrailScan(layer, g, current_dir, i + 1, best_strength, best_dir)

\* the same loop without its detection threshold test
RECURSIVE TrailScan_NoThreshold(_, _, _, _, _, _)
TrailScan_NoThreshold(layer, g, current_dir, i, best_strength, best_dir) ==
    IF i > Len(directions) THEN best_dir
    ELSE LET dx == directions[i][1]
             dy == directions[i][2]
             strength == Layer_get(layer, g[1] + dx, g[2] + dy)
             eff == Effective(strength, dy, dx, current_dir)
         IN  IF eff > best_strength
             THEN TrailScan_NoThreshold(layer, g, current_dir, i + 1, eff, Some(atan2(dy, dx)))
             ELSE TrailScan_NoThreshold(layer, g, current_dir, i + 1, best_strength, best_dir)

get_trail_direction_NoThreshold(x, y, ptype, current_dir) ==
    TrailScan_NoThreshold(get_layer(ptype), to_grid(x, y), current_dir, 1, 0, None)

\* PheromoneModel.get_trail_direction
get_trail_direction(x, y, ptype, current_dir) ==
    TrailScan(get_layer(ptype), to_grid(x, y), current_dir, 1, 0, None)

(***************************************************************************)
(* Operations on the field as actions.                                     *)
(***************************************************************************)
\* world positions tried: the middle of every cell, one position left of the grid and one past its far corner
Positions(w, h) ==
    {<<cell_size * c[1] + 10, cell_size * c[2] + 10>> : c \in GridCells(w, h)}
      \cup {<<-5, 10>>, <<w + 5, h + 5>>}

\* deposit amounts tried: nothing, one quantum, an ant's deposit (8.0 * 1.5), more than the cap
Amounts == {0, 1, 12 * Scale, 250 * Scale}

\* headings tried: none, and every multiple of pi/8 over three quarters of a turn each way
Headings == {None} \cup {Some(k * (EighthTurn \div 2)) : k \in -6 .. 6}

\* the components a specification leaves unused
NoNetworks == net1 = <<>> /\ net2 = <<>>
NoColony ==
    /\ ants = <<>>
    /\ food_sources = <<>>
    /\ food_stored = 0
    /\ population = 0
    /\ time = 0
    /\ death_markers = <<>>
    /\ walls = <<>>
    /\ maze = {}
    /\ pc = "idle"
    /\ idx = 0
    /\ dead_ants = <<>>
NoBrain ==
    /\ elite_brains = <<>>
    /\ colony_network = <<>>
    /\ generation = 0
    /\ best_fitness = 0
    /\ total_food_collected = 0
    /\ total_trips_completed = 0
    /\ knowledge_score = 0
    /\ diversity_score = 0

PheromoneModel_init(w, h) ==
    /\ width = w
    /\ height = h
    /\ food_trail = PheromoneLayer(w, h)
    /\ home_trail = PheromoneLayer(w, h)

OpCount == IF op.name = "init" THEN 0 ELSE op.n

PheromoneModel_deposit ==
    /\ \E p \in Positions(width, height), amount \in Amounts, ptype \in PheromoneType :
         LET x == p[1]
             y == p[2]
             r == deposit(x, y, amount, ptype)
         IN  /\ food_trail' = r.food
             /\ home_trail' = r.home
             /\ op' = [name |-> "deposit", n |-> Min(OpCount + 1, MaxOps), x |-> x, y |-> y,
                       amount |-> amount, ptype |-> ptype]
    /\ UNCHANGED <<width, height, netVars, brainVars, colonyVars>>

\* PheromoneModel.update
PheromoneModel_update ==
    /\ food_trail' = Layer_evaporate(food_trail, evaporation_num, evaporation_den)
    /\ home_trail' = Layer_evaporate(home_trail, evaporation_num, evaporation_den)
    /\ op' = [name |-> "update", n |-> Min(OpCount + 1, MaxOps)]
    /\ UNCHANGED <<width, height, netVars, brainVars, colonyVars>>

\* PheromoneModel.get_strength
PheromoneModel_get_strength ==
    /\ \E p \in Positions(width, height), ptype \in PheromoneType :
         op' = [name |-> "get_strength", n |-> Min(OpCount + 1, MaxOps), x |-> p[1], y |-> p[2],
                ptype |-> ptype, result |-> get_strength(p[1], p[2], ptype)]
    /\ UNCHANGED <<pherVars, netVars, brainVars, colonyVars>>

InitField ==
    /\ PheromoneModel_init(FieldW, FieldH)
    /\ NoNetworks
    /\ NoBrain
    /\ NoColony
    /\ op = [name |-> "init"]

NextField ==
    \/ OpCount < MaxOps /\ PheromoneModel_deposit
    \/ OpCount < MaxOps /\ PheromoneModel_update
    \/ OpCount < MaxOps /\ PheromoneModel_get_strength

SpecField == InitField /\ [][NextField]_vars

(***************************************************************************)
(* C1: after any sequence of deposits of non-negative amounts and          *)
(* evaporation ticks, every cell of both layers is within                  *)
(* [0, max_pheromone].                                                     *)
(***************************************************************************)
C1_StrengthInRange ==
    /\ \A c \in DOMAIN food_trail : 0 <= food_trail[c] /\ food_trail[c] <= max_pheromone
    /\ \A c \in DOMAIN home_trail : 0 <= home_trail[c] /\ home_trail[c] <= max_pheromone

\* a deposit has been capped and the capped cell has then been evaporated
C1_Witness ==
    /\ op.name = "update"
    /\ \E c \in DOMAIN food_trail :
         food_trail[c] = MulRound(max_pheromone, evaporation_num, evaporation_den)

(***************************************************************************)
(* Evaporation alone: a field with any contents, ticked once per frame by  *)
(* the main loop and never deposited into.                                 *)
(***************************************************************************)
\* strengths a cell starts with: empty, one quantum, an ant's deposit, the cap
EvapSamples == {0, 1, 12 * Scale, max_pheromone}

InitEvap ==
    /\ width = FieldW
    /\ height = FieldH
    /\ food_trail \in [GridCells(FieldW, FieldH) -> EvapSamples]
    /\ home_trail \in [GridCells(FieldW, FieldH) -> EvapSamples]
    /\ NoNetworks
    /\ NoBrain
    /\ NoColony
    /\ op = [name |-> "init"]

NextEvap == PheromoneModel_update

SpecEvap == InitEvap /\ [][NextEvap]_vars /\ WF_vars(PheromoneModel_update)

AllBelowThreshold ==
    /\ \A c \in DOMAIN food_trail : food_trail[c] < detection_threshold
    /\ \A c \in DOMAIN home_trail : home_trail[c] < detection_threshold

TrailSamples == {0, detection_threshold - 1, detection_threshold, 2 * detection_threshold}

\* the fields in which at most two cells are not empty
TrailFields(w, h) ==
    {[c \in GridCells(w, h) |-> IF c = q[1] THEN q[3] ELSE IF c = q[2] THEN q[4] ELSE 0] :
        q \in GridCells(w, h) \X GridCells(w, h) \X TrailSamples \X TrailSamples}

InitTrail ==
    /\ width = TrailW
    /\ height = TrailH
    /\ \E ptype \in PheromoneType, f \in TrailFields(TrailW, TrailH) :
         /\ food_trail = IF ptype = "FOOD_TRAIL" THEN f ELSE PheromoneLayer(TrailW, TrailH)
         /\ home_trail = IF ptype = "HOME_TRAIL" THEN f ELSE PheromoneLayer(TrailW, TrailH)
    /\ NoNetworks
    /\ NoBrain
    /\ NoColony
    /\ op = [name |-> "init"]

PheromoneModel_get_trail_direction ==
    /\ op.name = "init"
    /\ \E p \in Positions(width, height), ptype \in PheromoneType, current_dir \in Headings :
         op' = [name |-> "get_trail_direction", x |-> p[1], y |-> p[2], ptype |-> ptype,
                current_dir |-> current_dir,
                result |-> get_trail_direction(p[1], p[2], ptype, current_dir)]
    /\ UNCHANGED <<pherVars, netVars, brainVars, colonyVars>>

NextTrail == PheromoneModel_get_trail_direction

SpecTrail == InitTrail /\ [][NextTrail]_vars

\* the stored strengths of the eight neighbours of the cell of (x, y), in scan order
NeighbourStrength(x, y, ptype, i) ==
    Layer_get(get_layer(ptype), to_grid(x, y)[1] + directions[i][1],
              to_grid(x, y)[2] + directions[i][2])

(***************************************************************************)
(* C3: whenever get_trail_direction returns a direction, the neighbouring  *)
(* cell that direction points to has a stored strength at or above the     *)
(* detection threshold; if no neighbour reaches the threshold the result   *)
(* is None.                                                                *)
(***************************************************************************)
C3_TrailAboveThreshold ==
    op.name = "get_trail_direction" =>
        /\ op.result # None =>
             \E i \in 1 .. Len(directions) :
                /\ Some(atan2(directions[i][2], directions[i][1])) = op.result
                /\ NeighbourStrength(op.x, op.y, op.ptype, i) >= detection_threshold
        /\ (\A i \in 1 .. Len(directions) :
                NeighbourStrength(op.x, op.y, op.ptype, i) < detection_threshold)
             => op.result = None

\* a direction was returned although another neighbour holds a strength just
\* below the threshold
C3_Witness ==
    /\ op.name = "get_trail_direction"
    /\ op.result # None
    /\ \E i \in 1 .. Len(directions) :
         NeighbourStrength(op.x, op.y, op.ptype, i) = detection_threshold - 1

(***************************************************************************)
(* NeuralNetwork (src/src/neural_net.py).  The topology is scaled down;    *)
(* a weight is an integer, random.random() a number of RandDen-ths in      *)
(* [0, 1) and random.gauss(0, strength) a multiple of strength.            *)
(***************************************************************************)
weights_ih_count == INPUT_SIZE * HIDDEN_SIZE
weights_ho_count == HIDDEN_SIZE * OUTPUT_SIZE
total_weights == weights_ih_count + weights_ho_count + HIDDEN_SIZE + OUTPUT_SIZE

\* the outcome of a constructor call that raised IndexError
IndexError == [raised |-> TRUE, weights |-> <<>>]

\* NeuralNetwork.__init__ with given weights: _unpack_weights indexes the first
\* weights_ih_count + weights_ho_count of them and slices the biases
NeuralNetwork(weights) ==
    IF Len(weights) < weights_ih_count + weights_ho_count
    THEN IndexError
    ELSE [raised |-> FALSE, weights |-> weights]

\* zip(a, b): as long as the shorter list
ZipLen(a, b) == Min(Len(a), Len(b))

\* NeuralNetwork.mutate comparing the draw with <= instead of <
mutate_DrawAtMost(self, rate, strength, draws, gauss) ==
    NeuralNetwork([i \in 1 .. Len(self) |->
        IF draws[i] <= rate THEN self[i] + gauss[i] * strength ELSE self[i]])

\* NeuralNetwork.mutate; draws[i] and gauss[i] are the random numbers of weight i
mutate(self, rate, strength, draws, gauss) ==
    NeuralNetwork([i \in 1 .. Len(self) |->
        IF draws[i] < rate THEN self[i] + gauss[i] * strength ELSE self[i]])

\* NeuralNetwork.crossover pairing each weight with the other's next weight
crossover_Shifted(self, other, draws) ==
    NeuralNetwork([i \in 1 .. ZipLen(self, Tail(other)) |->
        IF 2 * draws[i] < RandDen THEN self[i] ELSE Tail(other)[i]])

\* NeuralNetwork.crossover; draws[i] is the random number of the i-th pair
crossover(self, other, draws) ==
    NeuralNetwork([i \in 1 .. ZipLen(self, other) |->
        IF 2 * draws[i] < RandDen THEN self[i] ELSE other[i]])

\* lists of n values that repeat a, b, a, b, ...
Patterns(n, vals) == {[i \in 1 .. n |-> IF i % 2 = 1 THEN q[1] ELSE q[2]] : q \in vals \X vals}

\* the lengths a constructed network's weight list can have: the least the
\* constructor accepts, the topology's own, and longer
WeightLengths == {weights_ih_count + weights_ho_count, total_weights, total_weights + 1}

Networks == UNION {Patterns(n, 0 .. 1) : n \in WeightLengths}
RandVals == 0 .. RandDen - 1
Rates == 0 .. RandDen
Strengths == 0 .. 2
GaussVals == {-1, 0, 1}

InitNet ==
    /\ PheromoneModel_init(0, 0)
    /\ net1 \in Networks
    /\ net2 \in Networks
    /\ NoBrain
    /\ NoColony
    /\ op = [name |-> "init"]

NeuralNetwork_mutate ==
    /\ op.name = "init"
    /\ \E rate \in Rates, strength \in Strengths,
          draws \in Patterns(Len(net1), RandVals), gauss \in Patterns(Len(net1), GaussVals) :
         op' = [name |-> "mutate", rate |-> rate, strength |-> strength,
                result |-> mutate(net1, rate, strength, draws, gauss)]
    /\ UNCHANGED <<pherVars, netVars, brainVars, colonyVars>>

\* a.crossover(b) for a, b among the two networks, a network with itself included
NeuralNetwork_crossover ==
    /\ op.name = "init"
    /\ \E a \in {net1, net2}, b \in {net1, net2}, draws \in Patterns(Len(net1) + Len(net2), RandVals) :
         op' = [name |-> "crossover", self |-> a, other |-> b,
                result |-> crossover(a, b, draws)]
    /\ UNCHANGED <<pherVars, netVars, brainVars, colonyVars>>

NextNet == NeuralNetwork_mutate \/ NeuralNetwork_crossover

SpecNet == InitNet /\ [][NextNet]_vars

(***************************************************************************)
(* C5: mutate with rate 0 returns a network whose weights are element-wise *)
(* those of the input network, whatever the strength and the random draws. *)
(***************************************************************************)
C5_MutateRateZero ==
    op.name = "mutate" /\ op.rate = 0 =>
        /\ op.result # IndexError
        /\ op.result.weights = net1

\* rate 0 with a non-zero strength, next to a run with rate 1 that did change a weight
C5_Witness ==
    /\ op.name = "mutate" /\ op.rate = 0 /\ op.strength > 0
    /\ op.result.weights = net1
    /\ \E draws \in Patterns(Len(net1), RandVals), gauss \in Patterns(Len(net1), GaussVals) :
         mutate(net1, RandDen, op.strength, draws, gauss).weights # net1

(***************************************************************************)
(* C6: crossover of a network with itself returns a network with the same  *)
(* weight at every index, whatever the per-weight random choices.          *)
(***************************************************************************)
C6_CrossoverSelf ==
    op.name = "crossover" /\ op.self = op.other =>
        /\ op.result # IndexError
        /\ op.result.weights = op.self

\* a network whose weights are not all equal has been crossed with itself
C6_Witness ==
    /\ op.name = "crossover" /\ op.self = op.other
    /\ \E i, j \in 1 .. Len(op.self) : op.self[i] # op.self[j]
    /\ op.result.weights = op.self

(***************************************************************************)
(* C7: crossing over two networks whose weight lists have different        *)
(* lengths is rejected as an error, whichever parent is the longer; it     *)
(* never yields a child built from a truncated weight list.                *)
(***************************************************************************)
C7_MismatchRejected ==
    op.name = "crossover" /\ Len(op.self) # Len(op.other) => op.result = IndexError

(***************************************************************************)
(* ColonyBrain (src/src/colony_brain.py).  A fitness is a number of quanta *)
(* (Scale per unit); a quotient is rounded to the nearest quantum.         *)
(***************************************************************************)
max_elites == 10
decay_num == 95
decay_den == 100

\* float quotient a / b of non-negative a and positive b, rounded to the nearest quantum
DivRound(a, b) == (2 * a + b) \div (2 * b)

\* AntBrain.__init__: a fresh brain around a network, fitness 0.0
AntBrain(network) == [network |-> network, fitness |-> 0]

\* AntBrain.copy: a new AntBrain around a copy of the network
AntBrain_copy(brain) == AntBrain(brain.network)

\* list.sort(key=lambda b: b.fitness, reverse=True): stable, descending
RECURSIVE InsertDesc(_, _)
InsertDesc(sorted, b) ==
    IF sorted = <<>> THEN <<b>>
    ELSE IF Head(sorted).fitness >= b.fitness
         THEN <<Head(sorted)>> \o InsertDesc(Tail(sorted), b)
         ELSE <<b>> \o sorted

RECURSIVE SortDesc(_)
SortDesc(brains) ==
    IF brains = <<>> THEN <<>>
    ELSE InsertDesc(SortDesc(SubSeq(brains, 1, Len(brains) - 1)), brains[Len(brains)])

\* the efficiency report_ant_performance computes
Efficiency(food_collected, trips, time_alive) ==
    IF time_alive > 0
    THEN DivRound((food_collected * 100 + trips * 50) * Scale * 60, time_alive)
    ELSE 0

\* report_ant_performance admitting a brain while the list is not yet over capacity
report_ant_performance_OverCapacity(elites, brain, efficiency) ==
    IF Len(elites) <= max_elites
    THEN SortDesc(Append(elites, AntBrain_copy([brain EXCEPT !.fitness = efficiency])))
    ELSE IF efficiency > elites[Len(elites)].fitness
         THEN SortDesc([elites EXCEPT ![Len(elites)] =
                            AntBrain_copy([brain EXCEPT !.fitness = efficiency])])
         ELSE elites

\* ColonyBrain.report_ant_performance: the elite list after the call
report_ant_performance(elites, brain, efficiency) ==
    IF Len(elites) < max_elites
    THEN SortDesc(Append(elites, AntBrain_copy([brain EXCEPT !.fitness = efficiency])))
    ELSE IF efficiency > elites[Len(elites)].fitness
         THEN SortDesc([elites EXCEPT ![Len(elites)] =
                            AntBrain_copy([brain EXCEPT !.fitness = efficiency])])
         ELSE elites

RECURSIVE SumWeight(_, _)
SumWeight(brains, i) ==
    IF brains = <<>> THEN 0 ELSE Head(brains).network[i] + SumWeight(Tail(brains), i)

\* the per-weight mean of the elites (rounded to the nearest representable weight)
AverageWeights(brains) ==
    [i \in 1 .. Len(brains[1].network) |-> DivRound(SumWeight(brains, i), Len(brains))]

\* sum(abs(w1 - w2) for w1, w2 in zip(a, b)) over the first n pairs
RECURSIVE AbsDiffSum(_, _, _)
AbsDiffSum(a, b, n) ==
    IF n = 0 THEN 0 ELSE Abs(a[n] - b[n]) + AbsDiffSum(a, b, n - 1)

\* diff / len(brain1.network.weights), in quanta
weight_diff(brain1, brain2) ==
    DivRound(AbsDiffSum(brain1.network, brain2.network,
                        ZipLen(brain1.network, brain2.network)) * Scale,
             Len(brain1.network))

\* total_diff over the pairs <<i, k>> with k >= j and the pairs of every later i
RECURSIVE total_diff(_, _, _)
total_diff(elites, i, j) ==
    IF i >= Len(elites) THEN 0
    ELSE IF j > Len(elites) THEN total_diff(elites, i + 1, i + 2)
    ELSE weight_diff(elites[i], elites[j]) + total_diff(elites, i, j + 1)

\* the number of pairs the double loop visits
pairs(elites) == (Len(elites) * (Len(elites) - 1)) \div 2

\* _calculate_diversity returning 1.0 for up to two elites
calculate_diversity_AtMostTwo(elites) ==
    IF Len(elites) <= 2 THEN Scale
    ELSE Min(Scale, DivRound(total_diff(elites, 1, 2), pairs(elites)))

\* ColonyBrain._calculate_diversity: the diversity_score it stores, in quanta
calculate_diversity(elites) ==
    IF Len(elites) < 2 THEN Scale
    ELSE Min(Scale, DivRound(total_diff(elites, 1, 2), pairs(elites)))

RECURSIVE SumFitness(_)
SumFitness(brains) ==
    IF brains = <<>> THEN 0 ELSE Head(brains).fitness + SumFitness(Tail(brains))

\* the knowledge_score ColonyBrain.update stores: min(1.0, avg_elite_fitness / 100.0)
knowledge(elites, old) ==
    IF elites = <<>> THEN old
    ELSE Min(Scale, DivRound(DivRound(SumFitness(elites), Len(elites)), 100))

\* how many ants ColonyBrain.update is handed
AntCounts == {0, 1}

\* the networks brains are built around
BrainNetworks == Patterns(total_weights, 0 .. 1)

\* what an ant reports: <<food_collected, trips, time_alive>>
Outcomes == {<<0, 0, 0>>, <<0, 0, 60>>, <<1, 1, 30>>, <<5, 5, 120>>}

\* elite lists a save file holds: as to_dict wrote them, in descending order of
\* fitness and within the capacity; n brains, all of fitness f or f apart
SavedElites ==
    {[i \in 1 .. q[1] |-> [network |-> [j \in 1 .. total_weights |-> i % 2],
                           fitness |-> IF q[2] THEN 100 * Scale
                                       ELSE (q[1] + 1 - i) * 100 * Scale]] :
        q \in {max_elites - 1, max_elites} \X BOOLEAN}

\* ColonyBrain.__init__, or ColonyBrain.from_dict on a save file
InitBrain ==
    /\ PheromoneModel_init(0, 0)
    /\ NoNetworks
    /\ NoColony
    /\ elite_brains \in {<<>>} \cup SavedElites
    /\ colony_network \in BrainNetworks
    /\ generation = 0
    /\ best_fitness = IF elite_brains = <<>> THEN 0 ELSE elite_brains[1].fitness
    /\ total_food_collected = 0
    /\ total_trips_completed = 0
    /\ knowledge_score = 0
    /\ diversity_score = 0
    /\ op = [name |-> "init"]

ColonyBrain_report_ant_performance ==
    /\ \E network \in BrainNetworks, o \in Outcomes :
         LET efficiency == Efficiency(o[1], o[2], o[3])
         IN  /\ elite_brains' = report_ant_performance(elite_brains, AntBrain(network), efficiency)
             /\ total_food_collected' = total_food_collected + o[1]
             /\ total_trips_completed' = total_trips_completed + o[2]
             /\ best_fitness' = IF efficiency > best_fitness THEN efficiency ELSE best_fitness
             /\ op' = [name |-> "report_ant_performance", n |-> Min(OpCount + 1, MaxOps),
                       efficiency |-> efficiency, outcome |-> o,
                       branch |-> IF Len(elite_brains) < max_elites THEN "append"
                                  ELSE IF efficiency > elite_brains[Len(elite_brains)].fitness
                                       THEN "replace" ELSE "keep"]
    /\ UNCHANGED <<pherVars, netVars, colonyVars, colony_network, generation,
                   knowledge_score, diversity_score>>

ColonyBrain_evolve_generation ==
    /\ generation' = generation + 1
    /\ colony_network' = IF elite_brains # <<>> THEN AverageWeights(elite_brains)
                         ELSE colony_network
    /\ elite_brains' = [i \in 1 .. Len(elite_brains) |->
                           [elite_brains[i] EXCEPT !.fitness = MulRound(@, decay_num, decay_den)]]
    /\ op' = [name |-> "evolve_generation", n |-> Min(OpCount + 1, MaxOps)]
    /\ UNCHANGED <<pherVars, netVars, colonyVars, best_fitness, total_food_collected,
                   total_trips_completed, knowledge_score, diversity_score>>

\* ColonyBrain.update called with a list of ants; of what it writes the model
\* keeps the two scores computed from the elites.  avg_fitness, avg_activations,
\* cooperation_score and the four histories are computed from the ants' brains
\* and read only by the statistics display.
ColonyBrain_update ==
    /\ \E ant_count \in AntCounts :
         /\ knowledge_score' = IF ant_count = 0 THEN knowledge_score
                               ELSE knowledge(elite_brains, knowledge_score)
         /\ diversity_score' = IF ant_count = 0 THEN diversity_score
                               ELSE calculate_diversity(elite_brains)
         /\ op' = [name |-> "update", n |-> Min(OpCount + 1, MaxOps), ants |-> ant_count]
    /\ UNCHANGED <<pherVars, netVars, colonyVars, elite_brains, colony_network, generation,
                   best_fitness, total_food_collected, total_trips_completed>>

NextBrain ==
    \/ OpCount < MaxOps /\ ColonyBrain_report_ant_performance
    \/ OpCount < MaxOps /\ ColonyBrain_evolve_generation
    \/ OpCount < MaxOps /\ ColonyBrain_update

SpecBrain == InitBrain /\ [][NextBrain]_vars

(***************************************************************************)
(* C4: after any sequence of report_ant_performance and evolve_generation  *)
(* calls, the elite list is in descending order of stored fitness and is   *)
(* no longer than max_elites.                                              *)
(***************************************************************************)
C4_ElitesSortedAndBounded ==
    /\ Len(elite_brains) <= max_elites
    /\ \A i \in 1 .. Len(elite_brains) - 1 :
         elite_brains[i].fitness >= elite_brains[i + 1].fitness

\* a full list whose worst elite has just been replaced by a better challenger
C4_Witness ==
    /\ op.name = "report_ant_performance"
    /\ op.branch = "replace"
    /\ op.efficiency > 0
    /\ Len(elite_brains) = max_elites
    /\ generation > 0

(***************************************************************************)
(* C20: with two elite networks whose weight vectors are identical, the    *)
(* diversity score ColonyBrain.update computes is exactly 0.               *)
(***************************************************************************)
C20_IdenticalElitesZeroDiversity ==
    (/\ op.name = "update"
     /\ op.ants > 0
     /\ Len(elite_brains) = 2
     /\ elite_brains[1].network = elite_brains[2].network)
    => diversity_score = 0

\* two reports of the same network made the two elites, then update ran
C20_Witness ==
    /\ op.name = "update"
    /\ op.ants > 0
    /\ Len(elite_brains) = 2
    /\ elite_brains[1].network = elite_brains[2].network
    /\ total_trips_completed > 0
    /\ diversity_score = 0

(***************************************************************************)
(* C21: after report_ant_performance appends a brain to the elite list or  *)
(* replaces the worst elite with it, some stored elite carries the fitness *)
(* just computed for that report.                                          *)
(***************************************************************************)
C21_StoredFitness ==
    (/\ op.name = "report_ant_performance"
     /\ op.branch \in {"append", "replace"})
    => \E i \in 1 .. Len(elite_brains) : elite_brains[i].fitness = op.efficiency

(***************************************************************************)
(* The ant inside the colony tick (src/src/ant.py, src/src/colony.py,      *)
(* src/src/walls.py).                                                      *)
(*                                                                         *)
(* Positions are whole pixels.  A heading is one of the eight compass      *)
(* headings, in angle units, and a step of DEFAULT_SPEED along it is       *)
(* rounded to whole pixels.  Every heading the program computes with a     *)
(* random.uniform term in it (steering, jitter, bounces) is any compass    *)
(* heading in the model.  Energy is counted in quanta of 1/EnergyScale,    *)
(* food and the colony store in quanta of 1/Scale.                         *)
(* Ant.trail, knows_food_location, last_food_x/y and time_since_food are   *)
(* written by update but read only by draw; the model leaves them out.     *)
(***************************************************************************)
\* Bounds: the world of SpecColony and the ant updates explored in one run
ColonyW == 320
ColonyH == 60
MaxUpdates == 2

\* Ant
radius == 6
DEFAULT_SPEED == 2
\* energy is a binary fraction, as a double is: EnergyScale quanta make one unit.
\* 0.01 is no binary fraction; DEFAULT_ENERGY_EFFICIENCY is the nearest quantum
\* count, which lies above 0.01 as the double nearest to 0.01 does
EnergyScale == 2097152
\* the cost rounded down to a whole quantum, which lies below 0.01
energy_cost_Floor == EnergyScale \div 100
energy_cost == DivRound(EnergyScale, 100)
max_energy == 100 * EnergyScale
\* the energy of an ant n updates after its energy was last max_energy
EnergyAfter(n) == max_energy - n * energy_cost
dropoff_energy == 20 * EnergyScale
idle_num == 8
idle_den == 10
pickup_range == 15
dropoff_range == 25
ANT_SMELL_RANGE == 150
trail_colony_dist == 150
deposit_colony_dist == 50
PHEROMONE_DEPOSIT == 8
pheromone_strength_num == 15
pheromone_strength_den == 10
deposit_cooldown_reset == 2
movement_check_interval == 180
min_movement_distance == 80
max_escape_attempts == 5
escape_jitter == 15
wall_stuck_limit == 60
stuck_limit == 30
edge_buffer == 35
clamp_inset == 2
repulsion_radius == 25
forward_num == 6
forward_den == 10
\* Colony
max_food == 10000
max_population == 500
consume_num == 5
consume_den == 100
spawn_interval == 60
spawn_threshold == 500
spawn_batch == 5
spawn_min_food == 100
spawn_cost == 20
food_source_count == 12
food_margin == 20
DEATH_MARKER_DURATION == 600
MAX_DEATH_MARKERS == 500

\* the colony stands in the centre of the bounds rectangle Rect(0, 0, width, height)
colony_x == width \div 2
colony_y == height \div 2
bounds_left == 0
bounds_top == 0
bounds_right == width
bounds_bottom == height

Dist2(x1, y1, x2, y2) == (x1 - x2) * (x1 - x2) + (y1 - y2) * (y1 - y2)
Sq(d) == d * d
Sgn(v) == IF v > 0 THEN 1 ELSE IF v < 0 THEN -1 ELSE 0

\* the compass headings, in (-pi, pi]
AntHeadings == {k * EighthTurn : k \in -3 .. 4}

\* while angle_diff > pi: angle_diff -= 2 pi; while angle_diff < -pi: angle_diff += 2 pi
RECURSIVE NormAngle(_)
NormAngle(angle_diff) ==
    IF angle_diff > Pi THEN NormAngle(angle_diff - 2 * Pi)
    ELSE IF angle_diff < -Pi THEN NormAngle(angle_diff + 2 * Pi)
    ELSE angle_diff

\* an angle as a heading in (-pi, pi]
Heading(angle) == IF NormAngle(angle) = -Pi THEN Pi ELSE NormAngle(angle)

\* Ant._get_direction_to: math.atan2(dy, dx) to the nearest compass heading
\* (tan(pi/8) = 0.414...)
get_direction_to(x, y, target_x, target_y) ==
    LET dx == target_x - x
        dy == target_y - y
        sx == IF 1000 * Abs(dx) <= 414 * Abs(dy) THEN 0 ELSE Sgn(dx)
        sy == IF 1000 * Abs(dy) <= 414 * Abs(dx) THEN 0 ELSE Sgn(dy)
    IN  IF sx = 0 /\ sy = 0 THEN 0 ELSE atan2(sy, sx)

\* math.cos(direction) * speed and math.sin(direction) * speed, in whole pixels
StepX(direction) ==
    CASE direction = 0 -> DEFAULT_SPEED
      [] Abs(direction) = EighthTurn -> 1
      [] Abs(direction) = 2 * EighthTurn -> 0
      [] Abs(direction) = 3 * EighthTurn -> -1
      [] direction = 4 * EighthTurn -> -DEFAULT_SPEED

StepY(direction) ==
    CASE direction = 0 \/ direction = 4 * EighthTurn -> 0
      [] Abs(direction) = 2 * EighthTurn -> Sgn(direction) * DEFAULT_SPEED
      [] OTHER -> Sgn(direction)

(***************************************************************************)
(* Walls: a wall is its pygame.Rect, [left, top, width, height].           *)
(***************************************************************************)
Right(wall) == wall.left + wall.width
Bottom(wall) == wall.top + wall.height

\* Wall.is_point_inside
is_point_inside(wall, x, y, margin) ==
    /\ wall.left - margin <= x /\ x <= Right(wall) + margin
    /\ wall.top - margin <= y /\ y <= Bottom(wall) + margin

\* WallManager.is_colliding: whether any wall holds the point
is_colliding(x, y, r) == \E k \in 1 .. Len(walls) : is_point_inside(walls[k], x, y, r)

\* WallManager.push_out_of_wall: the position after the call
push_out_of_wall(x, y, r) ==
    IF \E k \in 1 .. Len(walls) : is_point_inside(walls[k], x, y, 0)
    THEN LET k == CHOOSE j \in 1 .. Len(walls) :
                      /\ is_point_inside(walls[j], x, y, 0)
                      /\ \A l \in 1 .. j - 1 : ~is_point_inside(walls[l], x, y, 0)
             wall == walls[k]
             dist_left == x - wall.left
             dist_right == Right(wall) - x
             dist_top == y - wall.top
             dist_bottom == Bottom(wall) - y
             min_dist == Min(Min(dist_left, dist_right), Min(dist_top, dist_bottom))
         IN  IF min_dist = dist_left THEN <<wall.left - r - 1, y>>
             ELSE IF min_dist = dist_right THEN <<Right(wall) + r + 1, y>>
             ELSE IF min_dist = dist_top THEN <<x, wall.top - r - 1>>
             ELSE <<x, Bottom(wall) + r + 1>>
    ELSE <<x, y>>

(***************************************************************************)
(* Ant                                                                     *)
(***************************************************************************)
\* Ant.__init__
Ant(x, y, direction) ==
    [x |-> x, y |-> y, alive |-> TRUE,
     state |-> "FORAGING", carrying_food |-> FALSE, food_amount |-> 0,
     energy |-> max_energy, direction |-> direction, deposit_cooldown |-> 0,
     food_collected |-> 0, successful_trips |-> 0,
     movement_timer |-> 0, checkpoint_x |-> x, checkpoint_y |-> y,
     stuck_escape_count |-> 0, stuck_counter |-> 0, wall_stuck_time |-> 0]

\* Colony.add_food without the cap at max_food
add_food_NoCap(store, amount) == store + amount * Scale

\* Colony.add_food: the store after the call (amount in whole units)
add_food(store, amount) == Min(store + amount * Scale, max_food * Scale)

\* the movement check at the head of Ant.update: whether this update is a
\* checkpoint, and whether the ant moved too little since the last one
AtCheckpoint(a) == a.movement_timer + 1 >= movement_check_interval
MovedTooLittle(a) ==
    Dist2(a.x, a.y, a.checkpoint_x, a.checkpoint_y) < Sq(min_movement_distance)

\* the movement check letting the ant live until the count exceeds the maximum
MovementCheck_LateDeath(a, jitter, direction) ==
    IF ~AtCheckpoint(a) THEN [a EXCEPT !.movement_timer = @ + 1]
    ELSE IF MovedTooLittle(a)
         THEN IF a.stuck_escape_count + 1 > max_escape_attempts
              THEN [a EXCEPT !.movement_timer = @ + 1,
                             !.stuck_escape_count = @ + 1,
                             !.alive = FALSE]
              ELSE [a EXCEPT !.movement_timer = 0,
                             !.stuck_escape_count = @ + 1,
                             !.direction = direction,
                             !.x = a.x + jitter[1], !.y = a.y + jitter[2],
                             !.checkpoint_x = a.x + jitter[1],
                             !.checkpoint_y = a.y + jitter[2]]
         ELSE [a EXCEPT !.movement_timer = 0,
                        !.stuck_escape_count = 0,
                        !.checkpoint_x = a.x, !.checkpoint_y = a.y]

\* ant.py 127-151: the ant after the movement check; jitter is the random
\* teleport <<dx, dy>> and direction the random heading of an escape attempt
MovementCheck(a, jitter, direction) ==
    IF ~AtCheckpoint(a) THEN [a EXCEPT !.movement_timer = @ + 1]
    ELSE IF MovedTooLittle(a)
         THEN IF a.stuck_escape_count + 1 >= max_escape_attempts
              THEN [a EXCEPT !.movement_timer = @ + 1,
                             !.stuck_escape_count = @ + 1,
                             !.alive = FALSE]
              ELSE [a EXCEPT !.movement_timer = 0,
                             !.stuck_escape_count = @ + 1,
                             !.direction = direction,
                             !.x = a.x + jitter[1], !.y = a.y + jitter[2],
                             !.checkpoint_x = a.x + jitter[1],
                             !.checkpoint_y = a.y + jitter[2]]
         ELSE [a EXCEPT !.movement_timer = 0,
                        !.stuck_escape_count = 0,
                        !.checkpoint_x = a.x, !.checkpoint_y = a.y]

\* Ant._avoid_edges: whether the ant is within the edge buffer of a side
AtEdge(a) ==
    \/ a.x < bounds_left + edge_buffer
    \/ a.x > bounds_right - edge_buffer
    \/ a.y < bounds_top + edge_buffer
    \/ a.y > bounds_bottom - edge_buffer

\* Ant._avoid_other_ants: whether another ant of the list repels this one
Repelled(a, i) ==
    \E j \in 1 .. Len(ants) :
        /\ j # i
        /\ Dist2(a.x, a.y, ants[j].x, ants[j].y) < Sq(repulsion_radius)
        /\ Dist2(a.x, a.y, ants[j].x, ants[j].y) > 0

\* the first food source within pickup range, empty or not, or 0
PickupIndex_Empty(a, foods) ==
    LET near == {k \in 1 .. Len(foods) :
                    Dist2(a.x, a.y, foods[k].x, foods[k].y) < Sq(pickup_range)}
    IN  IF near = {} THEN 0 ELSE CHOOSE k \in near : \A l \in near : k <= l

\* the first food source within pickup range that has food left, or 0
PickupIndex(a, foods) ==
    LET near == {k \in 1 .. Len(foods) :
                    /\ Dist2(a.x, a.y, foods[k].x, foods[k].y) < Sq(pickup_range)
                    /\ foods[k].amount > 0}
    IN  IF near = {} THEN 0 ELSE CHOOSE k \in near : \A l \in near : k <= l

\* whether some food source with food left is within smell range
SmellsFood(a, foods) ==
    \E k \in 1 .. Len(foods) :
        /\ foods[k].amount > 0
        /\ Dist2(a.x, a.y, foods[k].x, foods[k].y) < Sq(ANT_SMELL_RANGE)

\* whether the ant follows the food trail: far from the colony, a trail is
\* sensed, and it lies less than 0.6 pi off the heading
FollowsTrail(a) ==
    /\ Dist2(a.x, a.y, colony_x, colony_y) > Sq(trail_colony_dist)
    /\ LET food_dir == get_trail_direction(a.x, a.y, "FOOD_TRAIL", Some(a.direction))
       IN  /\ food_dir # None
           /\ forward_den * Abs(NormAngle(Val(food_dir) - a.direction)) < forward_num * Pi

\* Ant._forage: the ant and the food sources after the decision, and the
\* priority that decided; direction is the heading left by the random steering
forage(a, foods, direction) ==
    LET k == PickupIndex(a, foods)
    IN  IF k # 0
        THEN [ant |-> [a EXCEPT !.carrying_food = TRUE,
                                !.food_amount = 1,
                                !.state = "RETURNING",
                                !.direction = get_direction_to(a.x, a.y, colony_x, colony_y)],
              foods |-> [foods EXCEPT ![k].amount = @ - Scale],
              branch |-> "pickup"]
        ELSE [ant |-> [a EXCEPT !.direction = direction],
              foods |-> foods,
              branch |-> IF SmellsFood(a, foods) THEN "smell"
                         ELSE IF FollowsTrail(a) THEN "trail"
                         ELSE "wander"]

\* Ant._return_to_colony dropping the food off without switching back to foraging
return_to_colony_Rest(a, store, direction) ==
    IF Dist2(a.x, a.y, colony_x, colony_y) < Sq(dropoff_range)
    THEN [ant |-> [a EXCEPT !.food_collected = @ + a.food_amount,
                            !.successful_trips = @ + 1,
                            !.carrying_food = FALSE,
                            !.food_amount = 0,
                            !.energy = Min(a.energy + dropoff_energy, max_energy),
                            !.state = "IDLE",
                            !.direction = direction],
          store |-> add_food(store, a.food_amount),
          branch |-> "dropoff"]
    ELSE [ant |-> [a EXCEPT !.direction = direction], store |-> store, branch |-> "home"]

\* Ant._return_to_colony: the ant and the colony store after the decision
return_to_colony(a, store, direction) ==
    IF Dist2(a.x, a.y, colony_x, colony_y) < Sq(dropoff_range)
    THEN [ant |-> [a EXCEPT !.food_collected = @ + a.food_amount,
                            !.successful_trips = @ + 1,
                            !.carrying_food = FALSE,
                            !.food_amount = 0,
                            !.energy = Min(a.energy + dropoff_energy, max_energy),
                            !.state = "FORAGING",
                            !.direction = direction],
          store |-> add_food(store, a.food_amount),
          branch |-> "dropoff"]
    ELSE [ant |-> [a EXCEPT !.direction = direction], store |-> store, branch |-> "home"]

\* Ant._idle_behavior
idle_behavior(a, direction) ==
    IF idle_den * a.energy > idle_num * max_energy
    THEN [a EXCEPT !.state = "FORAGING"]
    ELSE [a EXCEPT !.direction = direction]

\* ant.py 186-191: the state-based behaviour of one update
Decide(a, foods, store, direction) ==
    CASE a.state = "FORAGING" ->
           LET f == forage(a, foods, direction)
           IN  [ant |-> f.ant, foods |-> f.foods, store |-> store, branch |-> f.branch]
      [] a.state = "RETURNING" ->
           LET r == return_to_colony(a, store, direction)
           IN  [ant |-> r.ant, foods |-> foods, store |-> r.store, branch |-> r.branch]
      [] OTHER ->
           [ant |-> idle_behavior(a, direction), foods |-> foods, store |-> store,
            branch |-> "idle"]

\* PheromoneModel.get_danger_avoidance is called by Ant._move and defined by
\* no file of the repository; by the specification the danger layer only biases
\* the heading: the results <<should_avoid, avoid_turn>> the call may give
get_danger_avoidance(x, y, direction) ==
    {<<FALSE, 0>>} \cup {<<TRUE, t>> : t \in AntHeadings}

\* the headings an ant may move along: the steered heading, turned by the wall
\* and danger avoidance, blended with the previous heading and jittered
MoveHeadings(a) ==
    {h \in AntHeadings :
        \E r \in get_danger_avoidance(a.x, a.y, a.direction), g \in AntHeadings :
            h = Heading(g + r[2])}

\* whether Ant._move ends the ant's life: inside a wall for too long
WallDeath(a) ==
    is_colliding(a.x, a.y, radius \div 2) /\ a.wall_stuck_time + 1 > wall_stuck_limit

\* ant.py 422-444: wall-stuck bookkeeping and the pushes out of a wall
BeforeStep(a) ==
    LET inside_wall == is_colliding(a.x, a.y, radius \div 2)
        p1 == IF inside_wall THEN push_out_of_wall(a.x, a.y, radius) ELSE <<a.x, a.y>>
        unstick == a.stuck_counter > stuck_limit
        p2 == IF unstick THEN push_out_of_wall(p1[1], p1[2], radius) ELSE p1
    IN  [a EXCEPT !.wall_stuck_time = IF inside_wall THEN @ + 1 ELSE 0,
                  !.stuck_counter = IF unstick THEN 0 ELSE @,
                  !.x = p2[1], !.y = p2[2]]

\* whether the step along direction would enter a wall
Blocked(a, direction) ==
    is_colliding(a.x + StepX(direction), a.y + StepY(direction), radius)

\* ant.py 466-501: the step, refused when it would enter a wall, and the stuck
\* counter, which compares the position with the one at the start of the update
Step(a, prev, direction) ==
    LET blocked == Blocked(a, direction)
        new_x == IF blocked THEN a.x ELSE a.x + StepX(direction)
        new_y == IF blocked THEN a.y ELSE a.y + StepY(direction)
        bumped == IF blocked THEN a.stuck_counter + 2 ELSE a.stuck_counter
    IN  [a EXCEPT !.x = new_x, !.y = new_y, !.direction = direction,
                  !.stuck_counter = IF new_x = prev[1] /\ new_y = prev[2]
                                    THEN bumped + 1
                                    ELSE Max(0, bumped - 1)]

\* ant.py 503-516: which sides the hard clamp to the bounds acts on
ClampsLeft(a) == a.x <= bounds_left
ClampsRight(a) == ~ClampsLeft(a) /\ a.x >= bounds_right
ClampsTop(a) == a.y <= bounds_top
ClampsBottom(a) == ~ClampsTop(a) /\ a.y >= bounds_bottom

\* random.uniform(-pi/2, pi/2) and random.uniform(pi/2, 3 pi/2)
FaceRight == {h \in AntHeadings : Abs(h) <= 2 * EighthTurn}
FaceLeft == {h \in AntHeadings : Abs(h) >= 2 * EighthTurn}

\* the headings the ant may have when _move returns: the bounce of the last
\* clamp that acted, else the random turn away from a wall that blocked the
\* step, else the heading it moved along
FinalHeadings(a, blocked) ==
    IF ClampsTop(a) THEN FaceRight
    ELSE IF ClampsBottom(a) THEN FaceLeft
    ELSE IF ClampsLeft(a) THEN FaceRight
    ELSE IF ClampsRight(a) THEN FaceLeft
    ELSE IF blocked THEN AntHeadings
    ELSE {a.direction}

\* the hard clamp putting the ant on the bound it crossed
Clamp_OntoBound(a, direction) ==
    [a EXCEPT !.x = IF ClampsLeft(a) THEN bounds_left
                    ELSE IF ClampsRight(a) THEN bounds_right
                    ELSE @,
              !.y = IF ClampsTop(a) THEN bounds_top
                    ELSE IF ClampsBottom(a) THEN bounds_bottom
                    ELSE @,
              !.direction = direction]

\* ant.py 503-516: the hard clamp to the bounds
Clamp(a, direction) ==
    [a EXCEPT !.x = IF ClampsLeft(a) THEN bounds_left + clamp_inset
                    ELSE IF ClampsRight(a) THEN bounds_right - clamp_inset
                    ELSE @,
              !.y = IF ClampsTop(a) THEN bounds_top + clamp_inset
                    ELSE IF ClampsBottom(a) THEN bounds_bottom - clamp_inset
                    ELSE @,
              !.direction = direction]

\* the amount of one deposit: PHEROMONE_DEPOSIT * pheromone_strength
deposit_amount ==
    (PHEROMONE_DEPOSIT * pheromone_strength_num * Scale) \div pheromone_strength_den

\* the deposit decision taken without looking at the cooldown
DepositLayer_NoCooldown(a) ==
    IF Dist2(a.x, a.y, colony_x, colony_y) > Sq(deposit_colony_dist)
    THEN IF a.state = "RETURNING" /\ a.carrying_food THEN Some("FOOD_TRAIL")
         ELSE IF a.state = "FORAGING" THEN Some("HOME_TRAIL")
         ELSE None
    ELSE None

\* ant.py 216-227: the layer the ant deposits on at the end of the update, or None
DepositLayer(a) ==
    IF a.deposit_cooldown = 0
          /\ Dist2(a.x, a.y, colony_x, colony_y) > Sq(deposit_colony_dist)
    THEN IF a.state = "RETURNING" /\ a.carrying_food THEN Some("FOOD_TRAIL")
         ELSE IF a.state = "FORAGING" THEN Some("HOME_TRAIL")
         ELSE None
    ELSE None

(***************************************************************************)
(* Colony.update, one step at a time: the head of the tick, one Ant.update *)
(* per ant of the list in list order, and the bookkeeping after the scan.  *)
(***************************************************************************)
UpdateCount == IF op.name = "init" THEN 0 ELSE op.n
TickCount == IF op.name = "init" THEN 0 ELSE op.t

\* random.uniform(-15, 15) on each axis, when the movement check makes the ant jump
Jitters(a) ==
    IF AtCheckpoint(a) /\ MovedTooLittle(a)
    THEN {<<-escape_jitter, -escape_jitter>>, <<0, 0>>, <<escape_jitter, escape_jitter>>}
    ELSE {<<0, 0>>}

\* random.uniform(0, 2 pi) of an escape attempt
EscapeHeadings(a) ==
    IF AtCheckpoint(a) /\ MovedTooLittle(a) THEN AntHeadings ELSE {a.direction}

\* the headings the decision may find: the ant's own, or any once an escape,
\* an edge or another ant has turned it (the decision reads the heading only
\* to compare it with a sensed trail; otherwise it adds to it)
PreHeadings(a0, a, i) ==
    IF /\ a.stuck_escape_count > a0.stuck_escape_count \/ AtEdge(a) \/ Repelled(a, i)
       /\ a.state = "FORAGING"
       /\ Dist2(a.x, a.y, colony_x, colony_y) > Sq(trail_colony_dist)
    THEN AntHeadings
    ELSE {a.direction}

\* the headings the decision may leave: they show only when _move returns
\* before it blends and jitters the heading
SteeredHeadings(a) == IF WallDeath(a) THEN AntHeadings ELSE {a.direction}

\* the end of Ant.update and the scan's bookkeeping for it: the deposit, the
\* returned value, and the entry of dead_ants when it is False
Returns(a, foods, store, ret, branch, at) ==
    \E layer \in {IF ret THEN DepositLayer(a) ELSE None} :
    \E after \in {IF layer # None
                  THEN [a EXCEPT !.deposit_cooldown = deposit_cooldown_reset]
                  ELSE a} :
    \E field \in {IF layer # None
                  THEN deposit(a.x, a.y, deposit_amount, Val(layer))
                  ELSE [food |-> food_trail, home |-> home_trail]} :
        /\ ants' = [ants EXCEPT ![idx] = after]
        /\ food_sources' = foods
        /\ food_stored' = store
        /\ food_trail' = field.food
        /\ home_trail' = field.home
        /\ dead_ants' = IF ret THEN dead_ants ELSE Append(dead_ants, <<idx, a.x, a.y>>)
        /\ idx' = idx + 1
        /\ op' = [name |-> "Ant_update", n |-> UpdateCount + 1, t |-> TickCount, i |-> idx,
                  before |-> ants[idx], after |-> after, ret |-> ret,
                  branch |-> branch, at |-> at,
                  deposited |-> layer, store_before |-> food_stored]
        /\ UNCHANGED <<width, height, netVars, brainVars,
                       population, time, death_markers, walls, maze, pc>>

\* Ant.update of the ant the scan has reached
Ant_update ==
    /\ pc = "scan"
    /\ idx <= Len(ants)
    /\ UpdateCount < MaxUpdates
    /\ IF ~ants[idx].alive
       THEN Returns(ants[idx], food_sources, food_stored, FALSE, "none",
                    <<ants[idx].x, ants[idx].y>>)
       ELSE \E jitter \in Jitters(ants[idx]), escape \in EscapeHeadings(ants[idx]) :
            \E a1 \in {MovementCheck(ants[idx], jitter, escape)} :
            \E a2 \in {[a1 EXCEPT !.energy = @ - energy_cost]} :
              IF ~a1.alive
              THEN Returns(a1, food_sources, food_stored, FALSE, "none", <<a1.x, a1.y>>)
              ELSE IF a2.energy <= 0
              THEN Returns(a2, food_sources, food_stored, FALSE, "none", <<a1.x, a1.y>>)
              ELSE \E found \in PreHeadings(ants[idx], a2, idx) :
                   \E a3 \in {[a2 EXCEPT !.direction = found,
                                         !.deposit_cooldown = IF @ > 0 THEN @ - 1 ELSE @]} :
                   \E steered \in SteeredHeadings(a3) :
                   \E d \in {Decide(a3, food_sources, food_stored, steered)} :
                     IF WallDeath(d.ant)
                     THEN Returns([d.ant EXCEPT !.wall_stuck_time = @ + 1, !.alive = FALSE],
                                  d.foods, d.store, TRUE, d.branch, <<a1.x, a1.y>>)
                     ELSE \E moved \in MoveHeadings(d.ant) :
                          \E a4 \in {BeforeStep(d.ant)} :
                          \E a5 \in {Step(a4, <<a1.x, a1.y>>, moved)} :
                          \E final \in FinalHeadings(a5, Blocked(a4, moved)) :
                            Returns(Clamp(a5, final), d.foods, d.store,
                                    TRUE, d.branch, <<a1.x, a1.y>>)

\* Colony.update advancing the clock without updating the pheromone map
Colony_update_begin_NoEvaporation ==
    /\ pc = "idle"
    /\ TickCount < MaxTicks
    /\ time' = time + 1
    /\ dead_ants' = <<>>
    /\ idx' = 1
    /\ pc' = "scan"
    /\ op' = [name |-> "Colony_update_begin", n |-> UpdateCount, t |-> TickCount + 1]
    /\ UNCHANGED <<pherVars, netVars, brainVars,
                   ants, food_sources, food_stored, population, death_markers, walls, maze>>

\* Colony.update 177-181: the clock and the evaporation of both layers
Colony_update_begin ==
    /\ pc = "idle"
    /\ TickCount < MaxTicks
    /\ time' = time + 1
    /\ food_trail' = Layer_evaporate(food_trail, evaporation_num, evaporation_den)
    /\ home_trail' = Layer_evaporate(home_trail, evaporation_num, evaporation_den)
    /\ dead_ants' = <<>>
    /\ idx' = 1
    /\ pc' = "scan"
    /\ op' = [name |-> "Colony_update_begin", n |-> UpdateCount, t |-> TickCount + 1]
    /\ UNCHANGED <<width, height, netVars, brainVars,
                   ants, food_sources, food_stored, population, death_markers, walls, maze>>

\* for i, x, y in dead_ants: self.ants.pop(i), in scan order: every pop shifts
\* the ants behind it, and a pop past the end of the list removes nothing
RECURSIVE RemoveDead_Forward(_, _)
RemoveDead_Forward(list, dead) ==
    IF dead = <<>> THEN list
    ELSE LET i == dead[1][1]
         IN  RemoveDead_Forward(SubSeq(list, 1, i - 1) \o SubSeq(list, i + 1, Len(list)),
                                Tail(dead))

\* for i, x, y in reversed(dead_ants): self.ants.pop(i)
RECURSIVE RemoveDead(_, _)
RemoveDead(list, dead) ==
    IF dead = <<>> THEN list
    ELSE LET i == dead[Len(dead)][1]
         IN  RemoveDead(SubSeq(list, 1, i - 1) \o SubSeq(list, i + 1, Len(list)),
                        SubSeq(dead, 1, Len(dead) - 1))

\* deque(maxlen=MAX_DEATH_MARKERS).append
DequeAppend(markers, m) ==
    IF Len(markers) >= MAX_DEATH_MARKERS THEN Append(Tail(markers), m) ELSE Append(markers, m)

\* the death markers after one is added for every dead ant, last dead first
RECURSIVE AddMarkers(_, _)
AddMarkers(markers, dead) ==
    IF dead = <<>> THEN markers
    ELSE LET d == dead[Len(dead)]
         IN  AddMarkers(DequeAppend(markers, <<d[2], d[3], DEATH_MARKER_DURATION>>),
                        SubSeq(dead, 1, Len(dead) - 1))

\* Colony.update 198-205: every marker counted down, the expired ones dropped
RECURSIVE AgeMarkers(_)
AgeMarkers(markers) ==
    IF markers = <<>> THEN <<>>
    ELSE LET m == Head(markers)
         IN  (IF m[3] - 1 > 0 THEN <<<<m[1], m[2], m[3] - 1>>>> ELSE <<>>)
                \o AgeMarkers(Tail(markers))

\* PheromoneModel.deposit_danger is called by Colony.update and defined by no
\* file of the repository; by the specification the danger layer is a layer
\* of its own: the food and home layers after the call
deposit_danger(x, y, amount) == [food |-> food_trail, home |-> home_trail]

\* Colony.consume_food: the population counter and the store after the call
consume_food(count, store) ==
    LET consumption == MulRound(count * Scale, consume_num, consume_den)
    IN  IF store >= consumption
        THEN [population |-> count, store |-> store - consumption]
        ELSE [population |-> Max(0, count - (count * consume_num) \div consume_den),
              store |-> 0]

\* Colony.spawn_ant, draw being the random <<x, y, direction>> of the new ant
spawn_ant(c, draw) ==
    IF c.population < max_population /\ c.store > spawn_min_food * Scale
    THEN [ants |-> Append(c.ants, Ant(draw[1], draw[2], draw[3])),
          population |-> c.population + 1,
          store |-> c.store - spawn_cost * Scale]
    ELSE c

\* for _ in range(n): self.spawn_ant()
RECURSIVE SpawnLoop(_, _, _)
SpawnLoop(c, n, draws) ==
    IF n <= 0 THEN c ELSE SpawnLoop(spawn_ant(c, draws[1]), n - 1, Tail(draws))

\* the positions and headings drawn for a new ant: within radius + 5 of the colony
SpawnDraws == {<<colony_x, colony_y, 0>>, <<colony_x + 20, colony_y, 2 * EighthTurn>>}

\* Colony.update 214-217: the food sources that are not depleted
RECURSIVE Undepleted(_)
Undepleted(foods) ==
    IF foods = <<>> THEN <<>>
    ELSE (IF Head(foods).amount <= 0 THEN <<>> ELSE <<Head(foods)>>) \o Undepleted(Tail(foods))

\* Colony._is_valid_food_position
is_valid_food_position(x, y) == ~is_colliding(x, y, food_margin)

\* the food sources drawn to fill the map up: random.uniform(50, 150) units
NewFoods ==
    {f \in {[x |-> 300, y |-> 55, amount |-> 100 * Scale],
            [x |-> 185, y |-> 30, amount |-> 50 * Scale]} :
        is_valid_food_position(f.x, f.y)}

\* how many sources the refill loop adds: all that are missing, or fewer when
\* its 50 attempts keep drawing positions inside walls
Refills(foods) ==
    IF walls = <<>> THEN {food_source_count - Len(foods)}
    ELSE 0 .. (food_source_count - Len(foods))

\* Colony.update 187-231: the bookkeeping after the scan
Colony_update_end ==
    /\ pc = "scan"
    /\ idx > Len(ants)
    /\ LET danger == IF dead_ants = <<>> THEN [food |-> food_trail, home |-> home_trail]
                     ELSE deposit_danger(dead_ants[1][2], dead_ants[1][3], 150)
           fed == consume_food(population - Len(dead_ants), food_stored)
           before_spawn == [ants |-> RemoveDead(ants, dead_ants),
                            population |-> fed.population, store |-> fed.store]
           spawns == IF time % spawn_interval = 0 /\ fed.store > spawn_threshold * Scale
                     THEN Min(spawn_batch, max_population - fed.population)
                     ELSE 0
           left == Undepleted(food_sources)
       IN  \E draws \in [1 .. Max(spawns, 0) -> SpawnDraws], k \in Refills(left) :
             \E refill \in [1 .. k -> NewFoods] :
               LET c == SpawnLoop(before_spawn, spawns, draws)
               IN  /\ ants' = c.ants
                   /\ population' = c.population
                   /\ food_stored' = c.store
                   /\ food_sources' = left \o refill
                   /\ death_markers' = AgeMarkers(AddMarkers(death_markers, dead_ants))
                   /\ food_trail' = danger.food
                   /\ home_trail' = danger.home
    /\ pc' = "idle"
    /\ op' = [name |-> "Colony_update_end", n |-> UpdateCount, t |-> TickCount,
              removed |-> Len(dead_ants)]
    /\ UNCHANGED <<width, height, netVars, brainVars, time, walls, maze, idx, dead_ants>>

(***************************************************************************)
(* The colony in mid-run.  A run reaches a drop-off, a checkpoint or a     *)
(* death only after hundreds of updates, so the specification starts from  *)
(* states a run passes through: one or two ants of the list (the others    *)
(* are out of reach of them), each in a situation an ant gets into.        *)
(***************************************************************************)
\* the one wall of the world
TheWalls == <<[left |-> 30, top |-> 20, width |-> 60, height |-> 20]>>

\* an ant that has lived for a while: n trips done, energy e
Veteran(x, y, direction, n, e) ==
    [Ant(x, y, direction) EXCEPT !.food_collected = n, !.successful_trips = n, !.energy = e]

\* the same ant on its way home with one unit of food
Carrier(x, y, direction, n, e) ==
    [Veteran(x, y, direction, n, e) EXCEPT
        !.state = "RETURNING", !.carrying_food = TRUE, !.food_amount = 1]

\* an ant whose next update is a movement checkpoint it has not moved away from,
\* after k failed escapes
Stalled(a, k) ==
    [a EXCEPT !.movement_timer = movement_check_interval - 1, !.stuck_escape_count = k]

ForagerSamples ==
    {Ant(colony_x, colony_y, 0),                          \* just spawned
     Veteran(294, 30, 0, 1, EnergyAfter(6000)),                        \* touching the food at (300, 30)
     Veteran(285, 30, 0, 0, EnergyAfter(1000)),                        \* exactly pickup_range away from it
     Veteran(4, 30, 0, 2, EnergyAfter(7000)),                          \* far out, beside a marked cell
     Veteran(1, 30, 4 * EighthTurn, 0, EnergyAfter(3000)),             \* about to cross the left bound
     Veteran(180, 30, 0, 3, EnergyAfter(5000)),                        \* between a near food source and the colony
     Veteran(97, 30, 4 * EighthTurn, 0, EnergyAfter(2000)),            \* facing the wall
     [Veteran(60, 30, 0, 0, EnergyAfter(2000)) EXCEPT !.wall_stuck_time = wall_stuck_limit],  \* long inside the wall
     [Veteran(45, 30, 0, 0, EnergyAfter(2000)) EXCEPT !.wall_stuck_time = 1],                 \* just inside the wall
     [Veteran(60, 30, 0, 0, EnergyAfter(2000)) EXCEPT !.wall_stuck_time = wall_stuck_limit + 1,
                                         !.alive = FALSE], \* killed by the wall in the last tick
     Veteran(294, 32, 0, 0, EnergyAfter(9999)),                           \* on its last quantum of energy
     Stalled(Veteran(200, 30, 0, 0, EnergyAfter(4000)), 1),            \* stalled in the open
     Stalled(Veteran(200, 30, 0, 1, EnergyAfter(9999)), 0),            \* stalled, on its last quantum of energy
     [Stalled(Veteran(200, 30, 0, 0, EnergyAfter(4000)), 2)
         EXCEPT !.checkpoint_x = 100],                    \* two failed escapes, then 100 px of progress
     Stalled(Veteran(4, 30, 4 * EighthTurn, 0, EnergyAfter(3000)), 1)} \* stalled beside the left bound

CarrierSamples ==
    {Carrier(170, 30, 4 * EighthTurn, 1, EnergyAfter(5000)),           \* within dropoff_range of the colony
     Carrier(185, 30, 4 * EighthTurn, 0, EnergyAfter(5000)),           \* exactly dropoff_range away
     Carrier(250, 30, 4 * EighthTurn, 0, EnergyAfter(5000)),           \* on its way
     Carrier(170, 30, 4 * EighthTurn, 0, EnergyAfter(9999)),              \* at the colony, on its last quantum of energy
     Stalled(Carrier(170, 30, 4 * EighthTurn, 4, EnergyAfter(5000)), 0),
     Stalled(Carrier(170, 30, 4 * EighthTurn, 4, EnergyAfter(5000)), max_escape_attempts - 1)}

\* the second ant, when there is one
PeerSamples ==
    {Veteran(296, 32, 0, 0, EnergyAfter(4000)),
     Carrier(165, 30, 4 * EighthTurn, 0, EnergyAfter(4000)),
     Veteran(120, 32, 0, 0, EnergyAfter(9999))}           \* on its last quantum of energy

AntLists ==
    {<<a>> : a \in ForagerSamples \cup CarrierSamples}
        \cup {<<a, b>> : a \in ForagerSamples \cup CarrierSamples, b \in PeerSamples}

\* the food sources: eleven full ones out of the way and one that varies
FoodLists ==
    {<<f>> \o [k \in 1 .. food_source_count - 1 |-> [x |-> 300, y |-> 55, amount |-> 100 * Scale]] :
        f \in {[x |-> 300, y |-> 30, amount |-> Scale \div 2],
               [x |-> 300, y |-> 30, amount |-> Scale],
               [x |-> 300, y |-> 30, amount |-> 100 * Scale],
               [x |-> 185, y |-> 30, amount |-> 100 * Scale]}}

\* the mid-run situations: every ant list with every food list and an empty
\* store; a carrier at the colony whose store is half a unit below max_food;
\* a new ant in a colony whose store lets it spawn on the next tick
Scenarios ==
    {[ants |-> l, foods |-> f, store |-> 0, time |-> 0] : l \in AntLists, f \in FoodLists}
      \cup {[ants |-> <<a>>, foods |-> f, store |-> max_food * Scale - Scale \div 2, time |-> 0] :
                a \in CarrierSamples, f \in FoodLists}
      \cup {[ants |-> <<Ant(colony_x, colony_y, 0)>>, foods |-> f,
             store |-> 600 * Scale, time |-> spawn_interval - 1] : f \in FoodLists}

InitColony ==
    /\ width = ColonyW
    /\ height = ColonyH
    /\ food_trail = [PheromoneLayer(ColonyW, ColonyH) EXCEPT ![<<1, 1>>] = 2 * detection_threshold]
    /\ home_trail = PheromoneLayer(ColonyW, ColonyH)
    /\ NoNetworks
    /\ NoBrain
    /\ \E s \in Scenarios :
         /\ ants = s.ants
         /\ food_sources = s.foods
         /\ food_stored = s.store
         /\ time = s.time
    /\ population = Len(ants)
    /\ death_markers = <<>>
    /\ walls = TheWalls
    /\ maze = {}
    /\ pc = "idle"
    /\ idx = 0
    /\ dead_ants = <<>>
    /\ op = [name |-> "init"]

NextColony ==
    \/ Colony_update_begin
    \/ Ant_update
    \/ Colony_update_end

SpecColony == InitColony /\ [][NextColony]_vars

(***************************************************************************)
(* C8: an ant starts as Foraging and its state changes only by             *)
(* Foraging -> Returning at a pickup, Returning -> Foraging at a drop-off  *)
(* or Idle -> Foraging with energy above 80% of max_energy; no step of the *)
(* colony tick makes any other change, and none makes an ant Idle.         *)
(***************************************************************************)
C8_Allowed(b, a, branch) ==
    \/ a.state = b.state
    \/ b.state = "FORAGING" /\ a.state = "RETURNING" /\ branch = "pickup"
    \/ b.state = "RETURNING" /\ a.state = "FORAGING" /\ branch = "dropoff"
    \/ b.state = "IDLE" /\ a.state = "FORAGING" /\ branch = "idle"
          /\ idle_den * b.energy > idle_num * max_energy

C8_Step ==
    IF op'.name = "Ant_update"
    THEN /\ Len(ants') = Len(ants)
         /\ \A k \in 1 .. Len(ants) : C8_Allowed(ants[k], ants'[k], op'.branch)
    ELSE IF op'.name = "Colony_update_end"
    THEN \A k \in 1 .. Len(ants') :
            IF k <= Len(ants) - Len(dead_ants)
            THEN \E j \in 1 .. Len(ants) : ants'[k] = ants[j]
            ELSE ants'[k].state = "FORAGING"
    ELSE ants' = ants

C8_StateTransitions == [][C8_Step]_vars

\* an ant that picked food up in the first tick has dropped it off in the second
C8_Witness ==
    /\ op.name = "Ant_update"
    /\ op.t = 2
    /\ op.branch = "dropoff"
    /\ op.before.state = "RETURNING"
    /\ op.after.state = "FORAGING"
    /\ op.after.successful_trips = 4
    /\ op.after.food_collected = 4

(***************************************************************************)
(* C9: a Foraging ant becomes Returning in an update only if, where its    *)
(* forage decision runs, it is less than 15 away from a food source that   *)
(* has food left; smelling food, following a trail and wandering leave the *)
(* state alone.                                                            *)
(***************************************************************************)
C9_Step ==
    op'.name = "Ant_update" /\ ants[op'.i].state = "FORAGING" =>
        /\ ants'[op'.i].state = "RETURNING" =>
              \E k \in 1 .. Len(food_sources) :
                  /\ Dist2(op'.at[1], op'.at[2], food_sources[k].x, food_sources[k].y) < 15 * 15
                  /\ food_sources[k].amount > 0
        /\ op'.branch \in {"smell", "trail", "wander"} => ants'[op'.i].state = "FORAGING"

C9_PickupOnlyAtFood == [][C9_Step]_vars

\* a pickup: the ant went from Foraging to Returning and the source lost a unit
C9_Witness ==
    /\ op.name = "Ant_update"
    /\ op.branch = "pickup"
    /\ op.before.state = "FORAGING"
    /\ op.after.state = "RETURNING"
    /\ op.after.carrying_food
    /\ \E k \in 1 .. Len(food_sources) : food_sources[k].amount <= 0

C10_PassesMovementCheck(b) ==
    \/ b.movement_timer + 1 < 180
    \/ Dist2(b.x, b.y, b.checkpoint_x, b.checkpoint_y) >= 80 * 80
    \/ b.stuck_escape_count + 1 < 5

C11_EnergyDeath ==
    /\ op.name = "Ant_update"
    /\ op.before.alive
    /\ C10_PassesMovementCheck(op.before)
    /\ op.before.energy - energy_cost <= 0
    => /\ ~op.ret
       /\ op.after.state = op.before.state
       /\ op.after.x = op.before.x
       /\ op.after.y = op.before.y
       /\ op.deposited = None

(***************************************************************************)
(* C12: every ant that Colony.update removes has been reported to the      *)
(* evolution engine before its removal.  Each report made while the elite  *)
(* list has room appends an elite, so once a tick has removed its dead     *)
(* ants the engine holds at least as many elites as ants were removed, up  *)
(* to max_elites.                                                          *)
(***************************************************************************)
C12_ReportedBeforeRemoval ==
    op.name = "Colony_update_end" => Len(elite_brains) >= Min(op.removed, max_elites)

(***************************************************************************)
(* C14: report_ant_performance computes the fitness                        *)
(* (food_collected * 100 + trips * 50) / max(1, time_alive / 60), for      *)
(* every input, time_alive below 60 and time_alive = 0 included.           *)
(***************************************************************************)
C14_FitnessFormula ==
    op.name = "report_ant_performance"
    => op.efficiency = DivRound((op.outcome[1] * 100 + op.outcome[2] * 50) * Scale * 60,
                                Max(60, op.outcome[3]))

(***************************************************************************)
(* The maze (src/src/walls.py): WallManager._create_walls, one stage at a  *)
(* time.  maze is the set of cells of MazeGenerator.grid that are          *)
(* passages; every other cell of the grid is a wall.                       *)
(***************************************************************************)
\* Bounds: the area the maze is built for, and the random streams explored
MazeAreaW == 1140
MazeAreaH == 660
MaxSeed == 5

maze_cell_size == 60
clear_radius == 4
extra_divisor == 15

\* "ensure odd dimensions for proper maze generation"
Odd(n) == IF n % 2 = 0 THEN n - 1 ELSE n
maze_width == Odd(width \div maze_cell_size)
maze_height == Odd(height \div maze_cell_size)

\* the cell the carving starts from, and the colony's cell
OddUp(n) == IF n % 2 = 0 THEN n + 1 ELSE n
start_x == OddUp(maze_width \div 2)
start_y == OddUp(maze_height \div 2)
center_x == maze_width \div 2
center_y == maze_height \div 2

MazeCells == (0 .. maze_width - 1) \X (0 .. maze_height - 1)
Interior(c) ==
    0 < c[1] /\ c[1] < maze_width - 1 /\ 0 < c[2] /\ c[2] < maze_height - 1

\* MazeGenerator._get_unvisited_neighbors: the list it returns, in its order
unvisited_neighbors(g, x, y) ==
    SelectSeq(<< <<x, y - 2>>, <<x, y + 2>>, <<x - 2, y>>, <<x + 2, y>> >>,
              LAMBDA c : Interior(c) /\ c \notin g)

\* random.choice(neighbors): the stream of choices is numbered by seed, and
\* its step-th choice among n neighbours is the one at index (seed + step) mod n
choice(neighbors, seed, step) == neighbors[((seed + step) % Len(neighbors)) + 1]

\* MazeGenerator.generate: the while loop over the stack
RECURSIVE Carve(_, _, _, _)
Carve(g, stack, seed, step) ==
    IF stack = <<>> THEN g
    ELSE LET x == stack[Len(stack)][1]
             y == stack[Len(stack)][2]
             neighbors == unvisited_neighbors(g, x, y)
         IN  IF neighbors # <<>>
             THEN LET n == choice(neighbors, seed, step)
                      wall == <<x + (n[1] - x) \div 2, y + (n[2] - y) \div 2>>
                  IN  Carve(g \cup {wall, n}, Append(stack, n), seed, step + 1)
             ELSE Carve(g, SubSeq(stack, 1, Len(stack) - 1), seed, step)

generate(seed) == Carve({<<start_x, start_y>>}, << <<start_x, start_y>> >>, seed, 0)

\* MazeGenerator.clear_area: the passages after the call
clear_area(g, cx, cy, r) ==
    g \cup {c \in (Max(1, cx - r) .. Min(maze_width - 1, cx + r + 1) - 1)
                    \X (Max(1, cy - r) .. Min(maze_height - 1, cy + r + 1) - 1) :
                Sq(c[1] - cx) + Sq(c[2] - cy) <= Sq(r)}

\* one round of MazeGenerator.add_extra_passages: cell <<x, y>> is carved, and
\* its interior neighbours too when random.random() < 0.5 (also)
add_extra_passage(g, x, y, also) ==
    g \cup {<<x, y>>}
      \cup IF also
           THEN {c \in {<<x, y + 1>>, <<x, y - 1>>, <<x + 1, y>>, <<x - 1, y>>} : Interior(c)}
           ELSE {}

extra_count == (maze_width * maze_height) \div extra_divisor

\* the cells drawn by random.randint(2, grid_width - 3), random.randint(2, grid_height - 3):
\* beside the cleared border, and in the body of the maze
ExtraXs == {2, maze_width - 5}
ExtraYs == {2, maze_height - 5}

\* _create_walls 191-200: two rows and two columns cleared along every edge
clear_edges(g) ==
    g \cup {c \in MazeCells : \/ c[1] \in {0, 1, maze_width - 1, maze_width - 2}
                             \/ c[2] \in {0, 1, maze_height - 1, maze_height - 2}}

MinOf(S) == CHOOSE m \in S : \A n \in S : m <= n

\* MazeGenerator.to_walls: the run, to the right of <<x, y>>, of wall cells not
\* yet visited (rest holds the wall cells not yet visited)
RECURSIVE RunWidth(_, _, _, _)
RunWidth(rest, x, y, w) ==
    IF <<x + w, y>> \in rest THEN RunWidth(rest, x, y, w + 1) ELSE w

\* the rows below that continue the run in its first column
RECURSIVE RunHeight_FirstColumn(_, _, _, _, _)
RunHeight_FirstColumn(rest, x, y, w, h) ==
    IF <<x, y + h>> \in rest
    THEN RunHeight_FirstColumn(rest, x, y, w, h + 1)
    ELSE h

\* the rows below that continue the run over its whole width
RECURSIVE RunHeight(_, _, _, _, _)
RunHeight(rest, x, y, w, h) ==
    IF \A wx \in 0 .. w - 1 : <<x + wx, y + h>> \in rest
    THEN RunHeight(rest, x, y, w, h + 1)
    ELSE h

\* MazeGenerator.to_walls: the scan goes through the cells row by row, so the
\* next rectangle starts at the first unvisited wall cell in row-major order
RECURSIVE Merge(_, _)
Merge(rest, acc) ==
    IF rest = {} THEN acc
    ELSE LET y == MinOf({c[2] : c \in rest})
             x == MinOf({c[1] : c \in {d \in rest : d[2] = y}})
             w == RunWidth(rest, x, y, 0)
             h == RunHeight(rest, x, y, w, 1)
         IN  Merge(rest \ ((x .. x + w - 1) \X (y .. y + h - 1)),
                   Append(acc, [left |-> bounds_left + x * maze_cell_size,
                                top |-> bounds_top + y * maze_cell_size,
                                width |-> w * maze_cell_size,
                                height |-> h * maze_cell_size]))

to_walls(g) == Merge(MazeCells \ g, <<>>)

\* MazeGenerator.__init__: every cell a wall
InitMaze ==
    /\ width = MazeAreaW
    /\ height = MazeAreaH
    /\ food_trail = PheromoneLayer(0, 0)
    /\ home_trail = PheromoneLayer(0, 0)
    /\ NoNetworks
    /\ NoBrain
    /\ ants = <<>>
    /\ food_sources = <<>>
    /\ food_stored = 0
    /\ population = 0
    /\ time = 0
    /\ death_markers = <<>>
    /\ walls = <<>>
    /\ maze = {}
    /\ pc = "generate"
    /\ idx = 0
    /\ dead_ants = <<>>
    /\ op = [name |-> "init"]

MazeUnchanged ==
    UNCHANGED <<pherVars, netVars, brainVars, ants, food_sources, food_stored, population,
                time, death_markers, dead_ants>>

MazeGenerator_generate ==
    /\ pc = "generate"
    /\ \E seed \in 0 .. MaxSeed :
         /\ maze' = generate(seed)
         /\ op' = [name |-> "generate", seed |-> seed]
    /\ pc' = "clear_area"
    /\ UNCHANGED <<walls, idx>>
    /\ MazeUnchanged

MazeGenerator_clear_area ==
    /\ pc = "clear_area"
    /\ maze' = clear_area(maze, center_x, center_y, clear_radius)
    /\ pc' = "add_extra_passages"
    /\ idx' = 0
    /\ op' = [name |-> "clear_area"]
    /\ UNCHANGED walls
    /\ MazeUnchanged

\* one round of the loop of add_extra_passages(count)
MazeGenerator_add_extra_passage ==
    /\ pc = "add_extra_passages"
    /\ idx < extra_count
    /\ \E x \in ExtraXs, y \in ExtraYs, also \in BOOLEAN :
         /\ maze' = add_extra_passage(maze, x, y, also)
         /\ op' = [name |-> "add_extra_passage", x |-> x, y |-> y, also |-> also]
    /\ idx' = idx + 1
    /\ UNCHANGED <<walls, pc>>
    /\ MazeUnchanged

\* the rest of _create_walls: the edges cleared, the grid turned into walls
WallManager_finish ==
    /\ pc = "add_extra_passages"
    /\ idx = extra_count
    /\ maze' = clear_edges(maze)
    /\ walls' = to_walls(maze')
    /\ pc' = "idle"
    /\ idx' = 0
    /\ op' = [name |-> "create_walls"]
    /\ MazeUnchanged

NextMaze ==
    \/ MazeGenerator_generate
    \/ MazeGenerator_clear_area
    \/ MazeGenerator_add_extra_passage
    \/ WallManager_finish

SpecMaze == InitMaze /\ [][NextMaze]_vars

\* the passage cells reachable from the cells of seen through 4-adjacent passages
RECURSIVE Flood(_, _)
Flood(seen, g) ==
    LET more == {c \in g \ seen :
                    \E d \in {<<c[1] + 1, c[2]>>, <<c[1] - 1, c[2]>>,
                              <<c[1], c[2] + 1>>, <<c[1], c[2] - 1>>} : d \in seen}
    IN  IF more = {} THEN seen ELSE Flood(seen \cup more, g)

(***************************************************************************)
(* C13: in a finished maze every passage cell is reachable from the        *)
(* colony's cell through 4-adjacent passage cells.                         *)
(***************************************************************************)
C13_Connected ==
    op.name = "create_walls" => Flood({<<center_x, center_y>>}, maze) = maze

\* world coordinates that lie outside the grid: negative, or past the last cell
OutsideGrid(x, y) ==
    x < 0 \/ y < 0 \/ x >= grid_width * cell_size \/ y >= grid_height * cell_size

(***************************************************************************)
(* C15: a deposit at world coordinates outside the grid changes no cell of *)
(* either layer.                                                           *)
(***************************************************************************)
C15_Step ==
    op'.name = "deposit" /\ OutsideGrid(op'.x, op'.y)
    => food_trail' = food_trail /\ home_trail' = home_trail

C15_DepositOutsideNoOp == [][C15_Step]_vars

(***************************************************************************)
(* C16: get_strength at world coordinates outside the grid returns 0,      *)
(* whatever the border cells hold.                                         *)
(***************************************************************************)
C16_OutsideReadsZero ==
    op.name = "get_strength" /\ OutsideGrid(op.x, op.y) => op.result = 0

(***************************************************************************)
(* C17: in every colony tick both layers are evaporated exactly once, by   *)
(* the step that starts the tick, before any ant of that tick is updated;  *)
(* an ant's update changes the field only by its own deposit and the end   *)
(* of the tick leaves the field alone, so a deposit is first decayed by    *)
(* the next tick's evaporation.                                            *)
(***************************************************************************)
C17_Step ==
    /\ op'.name = "Colony_update_begin" =>
          /\ pc = "idle" /\ pc' = "scan" /\ idx' = 1
          /\ time' = time + 1
          /\ food_trail' = [c \in DOMAIN food_trail |-> MulRound(food_trail[c], 995, 1000)]
          /\ home_trail' = [c \in DOMAIN home_trail |-> MulRound(home_trail[c], 995, 1000)]
    /\ op'.name = "Ant_update" =>
          /\ pc = "scan" /\ time' = time
          /\ IF op'.deposited = None
             THEN food_trail' = food_trail /\ home_trail' = home_trail
             ELSE LET c == <<op'.after.x \div 20, op'.after.y \div 20>>
                      added == [food_trail EXCEPT ![c] = Min(200 * Scale, @ + 12 * Scale)]
                      marked == [home_trail EXCEPT ![c] = Min(200 * Scale, @ + 12 * Scale)]
                  IN  \/ op'.deposited = Some("FOOD_TRAIL")
                         /\ food_trail' = added /\ home_trail' = home_trail
                      \/ op'.deposited = Some("HOME_TRAIL")
                         /\ food_trail' = food_trail /\ home_trail' = marked
    /\ op'.name = "Colony_update_end" =>
          /\ pc = "scan" /\ pc' = "idle" /\ time' = time
          /\ food_trail' = food_trail /\ home_trail' = home_trail

C17_EvaporationFirst == [][C17_Step]_vars

\* the second tick has started: the home trail an ant laid in the first tick
\* has been decayed once
C17_Witness ==
    /\ op.name = "Colony_update_begin"
    /\ op.t = 2
    /\ \E c \in DOMAIN home_trail : home_trail[c] = MulRound(12 * Scale, 995, 1000)

(***************************************************************************)
(* C18: an ant's update leaves the list of ants as long as it was and      *)
(* every other ant untouched; the end of the tick removes exactly the ants *)
(* whose update returned False, keeps the others in their order, and adds  *)
(* nothing but newly made ants behind them.                                *)
(***************************************************************************)
\* the ants of list from index j on whose index is not in gone, in list order
RECURSIVE C18_Kept(_, _, _)
C18_Kept(list, j, gone) ==
    IF j > Len(list) THEN <<>>
    ELSE (IF j \in gone THEN <<>> ELSE <<list[j]>>) \o C18_Kept(list, j + 1, gone)

C18_Step ==
    /\ op'.name = "Colony_update_begin" => ants' = ants /\ dead_ants' = <<>>
    /\ op'.name = "Ant_update" =>
          /\ Len(ants') = Len(ants)
          /\ \A j \in 1 .. Len(ants) : j # op'.i => ants'[j] = ants[j]
          /\ dead_ants' = IF op'.ret THEN dead_ants
                          ELSE Append(dead_ants, <<op'.i, op'.after.x, op'.after.y>>)
    /\ op'.name = "Colony_update_end" =>
          LET gone == {dead_ants[k][1] : k \in 1 .. Len(dead_ants)}
              kept == C18_Kept(ants, 1, gone)
          IN  /\ Len(ants') >= Len(kept)
              /\ SubSeq(ants', 1, Len(kept)) = kept
              /\ \A j \in Len(kept) + 1 .. Len(ants') :
                    ants'[j] = Ant(ants'[j].x, ants'[j].y, ants'[j].direction)
              /\ op'.removed = Cardinality(gone)

C18_ListStableDuringScan == [][C18_Step]_vars

\* a tick has ended in which the first ant died and the second lived on
C18_Witness ==
    /\ op.name = "Colony_update_end"
    /\ op.removed = 1
    /\ dead_ants # <<>>
    /\ dead_ants[1][1] = 1
    /\ Len(ants) = 1
    /\ ants[1].alive

(***************************************************************************)
(* C19: every ant's energy is within [0, max_energy] in every reachable    *)
(* state, the state after the update in which it dies included.            *)
(***************************************************************************)
C19_EnergyInRange ==
    \A j \in 1 .. Len(ants) : 0 <= ants[j].energy /\ ants[j].energy <= 100 * EnergyScale

(***************************************************************************)
(* C22: the update call that sets an ant's alive flag to False returns     *)
(* False, and the ant deposits no pheromone in that call.                  *)
(***************************************************************************)
C22_DeathReturnsFalse ==
    (/\ op.name = "Ant_update"
     /\ op.before.alive
     /\ ~op.after.alive)
    => /\ ~op.ret
       /\ op.deposited = None

(***************************************************************************)
(* C23: the escape counter counts the consecutive movement checkpoints     *)
(* (every 180th update since the last one) that found the ant less than 80 *)
(* from the previous checkpoint: such a checkpoint adds 1, any other       *)
(* checkpoint resets it to 0, and no other update changes it.  The ant     *)
(* dies of stagnation exactly in the update whose checkpoint brings the    *)
(* counter to 5, so the counter of a live ant is below 5.                  *)
(***************************************************************************)
C23_StagnationDeath ==
    /\ \A j \in 1 .. Len(ants) :
         ants[j].alive => ants[j].stuck_escape_count < 5
    /\ (op.name = "Ant_update" /\ op.before.alive) =>
         LET b == op.before
             a == op.after
             checkpoint == b.movement_timer + 1 >= 180
             short == Dist2(b.x, b.y, b.checkpoint_x, b.checkpoint_y) < 80 * 80
         IN  /\ ~checkpoint => a.stuck_escape_count = b.stuck_escape_count
             /\ (checkpoint /\ ~short) => a.stuck_escape_count = 0
             /\ (checkpoint /\ short) => a.stuck_escape_count = b.stuck_escape_count + 1
             /\ (~a.alive /\ ~op.ret) <=>
                    (checkpoint /\ short /\ b.stuck_escape_count + 1 = 5)

\* an ant that failed four checkpoints fails the fifth and dies in that update
C23_Witness ==
    /\ op.name = "Ant_update"
    /\ op.before.alive
    /\ op.before.stuck_escape_count = 4
    /\ op.before.movement_timer = 179
    /\ ~op.after.alive
    /\ ~op.ret
    /\ op.after.stuck_escape_count = 5

(***************************************************************************)
(* C24: an Ant.update changes at most one cell of one pheromone layer.  It *)
(* deposits only if the cooldown, after the update's decrement, is 0 and   *)
(* the ant is more than 50 from the colony; on the home trail if the ant   *)
(* is FORAGING, on the food trail if it is RETURNING with food; the        *)
(* deposit sets the cooldown to 2, and an update that starts with cooldown *)
(* 2, the update after a deposit, deposits nothing.                        *)
(***************************************************************************)
C24_Step ==
    op'.name = "Ant_update" =>
        LET b == op'.before
            a == op'.after
            c == <<a.x \div 20, a.y \div 20>>
        IN  /\ op'.deposited = None =>
                  food_trail' = food_trail /\ home_trail' = home_trail
            /\ op'.deposited # None =>
                  /\ b.deposit_cooldown <= 1
                  /\ Dist2(a.x, a.y, colony_x, colony_y) > 50 * 50
                  /\ a.deposit_cooldown = 2
                  /\ op'.deposited = Some("FOOD_TRAIL") <=>
                         (a.state = "RETURNING" /\ a.carrying_food)
                  /\ op'.deposited = Some("HOME_TRAIL") <=> a.state = "FORAGING"
                  /\ op'.deposited = Some("FOOD_TRAIL") =>
                         /\ home_trail' = home_trail
                         /\ \A k \in DOMAIN food_trail \ {c} : food_trail'[k] = food_trail[k]
                  /\ op'.deposited = Some("HOME_TRAIL") =>
                         /\ food_trail' = food_trail
                         /\ \A k \in DOMAIN home_trail \ {c} : home_trail'[k] = home_trail[k]
            /\ b.deposit_cooldown = 2 => op'.deposited = None

C24_DepositGated == [][C24_Step]_vars

\* a forager that deposited in the first tick is updated again in the second,
\* far from the colony, and deposits nothing
C24_Witness ==
    /\ op.name = "Ant_update"
    /\ op.t = 2
    /\ op.before.deposit_cooldown = 2
    /\ op.after.deposit_cooldown = 1
    /\ op.after.state = "FORAGING"
    /\ Dist2(op.after.x, op.after.y, colony_x, colony_y) > 50 * 50
    /\ op.ret
    /\ op.deposited = None
    /\ \E k \in DOMAIN home_trail : home_trail[k] > 0

(***************************************************************************)
(* C25: a pickup takes no more than the food source has left: after an     *)
(* update in which the ant picked food up, no food source has a negative   *)
(* amount.                                                                 *)
(***************************************************************************)
C25_PickupWithinRemaining ==
    (op.name = "Ant_update" /\ op.branch = "pickup")
    => \A k \in 1 .. Len(food_sources) : food_sources[k].amount >= 0

(***************************************************************************)
(* C26: get_trail_direction returns the direction of the neighbour of      *)
(* greatest effective strength among the eight neighbours whose stored     *)
(* strength is at or above the detection threshold, a neighbour more than  *)
(* 90 degrees off the supplied heading counting 0.3 times its strength;    *)
(* among neighbours of equal greatest effective strength the first in scan *)
(* order is returned, and None when no neighbour reaches the threshold.    *)
(***************************************************************************)
C26_TrailDirection ==
    op.name = "get_trail_direction" =>
        LET stored(i) == NeighbourStrength(op.x, op.y, op.ptype, i)
            angle(i) == atan2(directions[i][2], directions[i][1])
            backward(i) ==
                /\ op.current_dir # None
                /\ 2 * Abs(NormAngle(angle(i) - Val(op.current_dir))) > Pi
            \* ten times the effective strength
            tenfold(i) == IF backward(i) THEN 3 * stored(i) ELSE 10 * stored(i)
            candidates == {i \in 1 .. Len(directions) : stored(i) >= detection_threshold}
            greatest == {i \in candidates : \A j \in candidates : tenfold(i) >= tenfold(j)}
        IN  IF candidates = {} THEN op.result = None
            ELSE \E i \in greatest :
                    /\ \A j \in greatest : i <= j
                    /\ op.result = Some(angle(i))

\* the neighbour behind the ant holds twice the strength of the one ahead, and
\* the one ahead, later in scan order, is returned
C26_Witness ==
    /\ op.name = "get_trail_direction"
    /\ op.current_dir = Some(0)
    /\ NeighbourStrength(op.x, op.y, op.ptype, 4) = 2 * detection_threshold
    /\ NeighbourStrength(op.x, op.y, op.ptype, 5) = detection_threshold
    /\ op.result = Some(0)

(***************************************************************************)
(* C27: the rectangles to_walls produces cover the wall cells of the grid  *)
(* exactly: no two rectangles overlap, every wall cell lies in exactly one *)
(* rectangle, and no passage cell lies in any rectangle.                   *)
(***************************************************************************)
C27_ExactCover ==
    op.name = "create_walls" =>
        LET \* whether rectangle r and the square of cell c share a point of area
            covers(r, c) ==
                /\ r.left < bounds_left + (c[1] + 1) * 60
                /\ bounds_left + c[1] * 60 < r.left + r.width
                /\ r.top < bounds_top + (c[2] + 1) * 60
                /\ bounds_top + c[2] * 60 < r.top + r.height
            overlap(r, q) ==
                /\ r.left < q.left + q.width /\ q.left < r.left + r.width
                /\ r.top < q.top + q.height /\ q.top < r.top + r.height
        IN  /\ \A i, j \in 1 .. Len(walls) : i # j => ~overlap(walls[i], walls[j])
            /\ \A c \in MazeCells \ maze :
                  Cardinality({i \in 1 .. Len(walls) : covers(walls[i], c)}) = 1
            /\ \A c \in maze : \A i \in 1 .. Len(walls) : ~covers(walls[i], c)

\* walls were made from a carved maze: some rectangle merges cells along a row,
\* another along a column, and there are fewer rectangles than wall cells
C27_Witness ==
    /\ op.name = "create_walls"
    /\ maze # {}
    /\ \E i, j \in 1 .. Len(walls) :
          /\ walls[i].width > 60 /\ walls[i].height = 60
          /\ walls[j].width = 60 /\ walls[j].height > 60
    /\ Len(walls) < Cardinality(MazeCells \ maze)

(***************************************************************************)
(* C28: with bounds supplied, after every update that returns True the     *)
(* ant's position lies strictly inside the bounds rectangle, the updates   *)
(* that applied a stuck-escape jitter or a wall push-out included.         *)
(***************************************************************************)
C28_InsideBounds ==
    (op.name = "Ant_update" /\ op.ret) =>
        /\ bounds_left < op.after.x /\ op.after.x < bounds_right
        /\ bounds_top < op.after.y /\ op.after.y < bounds_bottom

\* a stalled ant beside the left bound was thrown across it by the escape
\* jitter and ends the update clamped inside
C28_Witness ==
    /\ op.name = "Ant_update"
    /\ op.ret
    /\ op.before.movement_timer = 179
    /\ op.after.stuck_escape_count = op.before.stuck_escape_count + 1
    /\ op.at[1] < bounds_left
    /\ op.after.x = bounds_left + 2

(***************************************************************************)
(* The colony's head count over whole ticks (src/src/colony.py), from the  *)
(* state Colony.__init__ leaves.  Ant.update is specified step by step in  *)
(* SpecColony; here the scan over the ants is one step, and of the ants'   *)
(* updates it keeps what the bookkeeping after the scan reads: which       *)
(* updates returned False and how much food the ants dropped off.          *)
(***************************************************************************)
INITIAL_ANT_COUNT == 100

\* Colony.__init__: INITIAL_ANT_COUNT ants, each counted, an empty store and
\* the food sources of _create_food_sources
InitPopulation ==
    /\ width = ColonyW
    /\ height = ColonyH
    /\ food_trail = PheromoneLayer(ColonyW, ColonyH)
    /\ home_trail = PheromoneLayer(ColonyW, ColonyH)
    /\ NoNetworks
    /\ NoBrain
    /\ ants = [i \in 1 .. INITIAL_ANT_COUNT |-> Ant(colony_x, colony_y, 0)]
    /\ population = INITIAL_ANT_COUNT
    /\ food_sources \in FoodLists
    /\ food_stored = 0
    /\ time = 0
    /\ death_markers = <<>>
    /\ walls = TheWalls
    /\ maze = {}
    /\ pc = "idle"
    /\ idx = 0
    /\ dead_ants = <<>>
    /\ op = [name |-> "init"]

\* the sets of list indices whose update returns False in one scan
DeathPatterns(n) == {{}, {1}, {n}, {1, n}, {1, 2, n}}

\* the whole units of food the ants drop off in one scan
Deliveries == {0, 1, 600}

\* colony.py 184-187: the loop over the ants
Colony_scan ==
    /\ pc = "scan"
    /\ idx = 1
    /\ \E died \in DeathPatterns(Len(ants)), delivered \in Deliveries :
         /\ dead_ants' = SelectSeq([i \in 1 .. Len(ants) |-> <<i, ants[i].x, ants[i].y>>],
                                   LAMBDA e : e[1] \in died)
         /\ food_stored' = add_food(food_stored, delivered)
         /\ op' = [name |-> "Colony_scan", n |-> UpdateCount, t |-> TickCount,
                   died |-> Cardinality(died \cap (1 .. Len(ants)))]
    /\ idx' = Len(ants) + 1
    /\ UNCHANGED <<pherVars, netVars, brainVars, ants, food_sources, population, time,
                   death_markers, walls, maze, pc>>

NextPopulation ==
    \/ Colony_update_begin
    \/ Colony_scan
    \/ Colony_update_end

SpecPopulation == InitPopulation /\ [][NextPopulation]_vars

(***************************************************************************)
(* C29: after every colony tick the population counter equals the number   *)
(* of ants in the colony's list.                                           *)
(***************************************************************************)
C29_PopulationIsListLength ==
    op.name = "Colony_update_end" => population = Len(ants)

(***************************************************************************)
(* The colony tick under the main loop, which calls Colony.update on every *)
(* frame: a step of the tick that can be taken is taken.                   *)
(***************************************************************************)
\* the mid-run situations with one ant in the list, at least 5000 updates after
\* it last had full energy, an empty store and a full food source
LifetimeScenarios ==
    {s \in Scenarios : /\ Len(s.ants) = 1
                       /\ s.ants[1].energy <= EnergyAfter(5000)
                       /\ s.store = 0
                       /\ s.foods[1].x = 300
                       /\ s.foods[1].amount = 100 * Scale}

InitLifetime ==
    /\ width = ColonyW
    /\ height = ColonyH
    /\ food_trail = [PheromoneLayer(ColonyW, ColonyH) EXCEPT ![<<1, 1>>] = 2 * detection_threshold]
    /\ home_trail = PheromoneLayer(ColonyW, ColonyH)
    /\ NoNetworks
    /\ NoBrain
    /\ \E s \in LifetimeScenarios :
         /\ ants = s.ants
         /\ food_sources = s.foods
         /\ food_stored = s.store
         /\ time = s.time
    /\ population = Len(ants)
    /\ death_markers = <<>>
    /\ walls = TheWalls
    /\ maze = {}
    /\ pc = "idle"
    /\ idx = 0
    /\ dead_ants = <<>>
    /\ op = [name |-> "init"]

SpecLifetime == InitLifetime /\ [][NextColony]_vars /\ WF_vars(NextColony)

(***************************************************************************)
(* C30: an ant that completes no drop-off dies within 10,000 updates of    *)
(* having full energy.  Its energy never exceeds 100; every update it      *)
(* survives without a drop-off lowers its energy by the same cost, which   *)
(* is at least a 10,000th of 100; only a drop-off raises its energy; an    *)
(* update that leaves its energy at 0 or below returns False, as does      *)
(* every update of an ant that is no longer alive; and an ant on its last  *)
(* hundredth of energy is eventually returned False for by its update.     *)
(***************************************************************************)
C30_Update ==
    op.name = "Ant_update" =>
        /\ ~op.before.alive => ~op.ret
        /\ op.before.energy <= 100 * EnergyScale
        /\ (op.before.alive /\ op.ret /\ op.branch # "dropoff") =>
              /\ op.after.energy < op.before.energy
              /\ 10000 * (op.before.energy - op.after.energy) >= 100 * EnergyScale
        /\ op.after.energy > op.before.energy => op.branch = "dropoff"
        /\ (op.before.alive /\ op.after.energy <= 0) => ~op.ret

====
